---- MODULE Spec2Model ----
(***************************************************************************)
(* Loop playground (src/main.js): the three lessons "for", "while" and     *)
(* "foreach", their editable text fragments, the parsers, the sequence     *)
(* derivation, the lesson-data builders, the console statement templater   *)
(* and the run / step / advance / reset / edit / select / animate handlers.*)
(* Texts are TLA+ strings; a character is a string of length 1.            *)
(***************************************************************************)
EXTENDS Integers, Sequences, FiniteSets, TLC

(***************************************************************************)
(* Bounds of the model.                                                    *)
(***************************************************************************)
\* |start| of the inputs handed to deriveCounterValues
MaxStart == 2
\* |step| of the inputs handed to deriveCounterValues
MaxStep == 3
\* the ends handed to deriveCounterValues lie within CapSlack of the reach
\* of the iteration cap, or within MaxStart + 1 of zero
CapSlack == 2

(***************************************************************************)
(* Characters and strings.                                                 *)
(***************************************************************************)
CharAt(s, i) == SubSeq(s, i, i)

Digits == {"0", "1", "2", "3", "4", "5", "6", "7", "8", "9"}

Letters ==
  {"a", "b", "c", "d", "e", "f", "g", "h", "i", "j", "k", "l", "m",
   "n", "o", "p", "q", "r", "s", "t", "u", "v", "w", "x", "y", "z",
   "A", "B", "C", "D", "E", "F", "G", "H", "I", "J", "K", "L", "M",
   "N", "O", "P", "Q", "R", "S", "T", "U", "V", "W", "X", "Y", "Z"}

\* \s of the regular expressions
IsSpace(c) == c \in {" ", "\t", "\n"}

\* \w of the regular expressions
IsWordChar(c) == c \in Letters \cup Digits \cup {"_"}

\* [a-zA-Z_$]
IsIdentStart(c) == c \in Letters \cup {"_", "$"}

\* [\w$]
IsIdentChar(c) == IsWordChar(c) \/ c = "$"

\* the suffix of s from position i on
From(s, i) == SubSeq(s, i, Len(s))

StartsWith(s, p) == Len(s) >= Len(p) /\ SubSeq(s, 1, Len(p)) = p

RECURSIVE SkipSpaces(_, _)
\* \s* from position i: the position of the first character that is no space
SkipSpaces(s, i) ==
  IF i <= Len(s) /\ IsSpace(CharAt(s, i)) THEN SkipSpaces(s, i + 1) ELSE i

RECURSIVE SkipDigits(_, _)
\* \d* from position i
SkipDigits(s, i) ==
  IF i <= Len(s) /\ CharAt(s, i) \in Digits THEN SkipDigits(s, i + 1) ELSE i

RECURSIVE SkipIdentChars(_, _)
\* [\w$]* from position i
SkipIdentChars(s, i) ==
  IF i <= Len(s) /\ IsIdentChar(CharAt(s, i)) THEN SkipIdentChars(s, i + 1) ELSE i

RECURSIVE TrimEnd(_)
TrimEnd(s) ==
  IF Len(s) > 0 /\ IsSpace(CharAt(s, Len(s)))
  THEN TrimEnd(SubSeq(s, 1, Len(s) - 1))
  ELSE s

\* String.prototype.trim
Trim(s) == TrimEnd(From(s, SkipSpaces(s, 1)))

\* mutant: the semicolon stays
StripSemicolonNever(s) == s

\* text.replace(/;$/, "")
StripSemicolon(s) ==
  IF Len(s) > 0 /\ CharAt(s, Len(s)) = ";" THEN SubSeq(s, 1, Len(s) - 1) ELSE s

DigitValue(c) ==
  CASE c = "0" -> 0 [] c = "1" -> 1 [] c = "2" -> 2 [] c = "3" -> 3
    [] c = "4" -> 4 [] c = "5" -> 5 [] c = "6" -> 6 [] c = "7" -> 7
    [] c = "8" -> 8 [] c = "9" -> 9

DigitChar(d) ==
  CASE d = 0 -> "0" [] d = 1 -> "1" [] d = 2 -> "2" [] d = 3 -> "3"
    [] d = 4 -> "4" [] d = 5 -> "5" [] d = 6 -> "6" [] d = 7 -> "7"
    [] d = 8 -> "8" [] d = 9 -> "9"

RECURSIVE DigitsToNumber(_)
\* Number(text) of a text of decimal digits
DigitsToNumber(s) ==
  IF Len(s) = 0 THEN 0
  ELSE 10 * DigitsToNumber(SubSeq(s, 1, Len(s) - 1)) + DigitValue(CharAt(s, Len(s)))

\* Number(text) of a text matching -?\d+
SignedToNumber(s) ==
  IF CharAt(s, 1) = "-" THEN 0 - DigitsToNumber(From(s, 2)) ELSE DigitsToNumber(s)

RECURSIVE NatToString(_)
NatToString(n) ==
  IF n < 10 THEN DigitChar(n) ELSE NatToString(n \div 10) \o DigitChar(n % 10)

\* String(value) of an integer value, also the text "" + value
NumberToString(n) == IF n < 0 THEN "-" \o NatToString(0 - n) ELSE NatToString(n)

\* ParseResult<T>
Ok(v) == [ok |-> TRUE, value |-> v]
Fail(msg) == [ok |-> FALSE, error |-> msg]

(***************************************************************************)
(* Sequence derivation.                                                    *)
(***************************************************************************)
\* the guard cap of deriveCounterValues
GuardCap == 200

TooManyTimes == "This loop would run too many times. Adjust the numbers."

\* mutant: the comparisons are strict
checkStrict(comparator, end, value) ==
  IF comparator = "<=" THEN value < end ELSE value > end

\* the predicate `check` of deriveCounterValues
check(comparator, end, value) ==
  IF comparator = "<=" THEN value <= end ELSE value >= end

\* mutant: the loop starts one step late
deriveStartLate(start) ==
  [values |-> <<>>, current |-> start + 1, guard |-> 0, at |-> "loop"]

\* the locals of deriveCounterValues before its while loop
deriveStart(start) ==
  [values |-> <<>>, current |-> start, guard |-> 0, at |-> "loop"]

\* mutant: the guard gives up when it reaches the cap, not when it passes it
deriveIterationEarlyGuard(st, end, comparator, step) ==
  IF st.at # "loop" THEN st
  ELSE IF check(comparator, end, st.current)
  THEN [values |-> Append(st.values, st.current),
        current |-> st.current + step,
        guard |-> st.guard + 1,
        at |-> IF st.guard + 1 >= GuardCap THEN "failed" ELSE "loop"]
  ELSE [st EXCEPT !.at = "left"]

\* one pass of the while loop of deriveCounterValues: the test of the loop
\* condition and, when it holds, the loop body; at = "loop" while the loop is
\* to be continued, "failed" after the return inside the body, "left" after
\* the loop condition was false
deriveIteration(st, end, comparator, step) ==
  IF st.at # "loop" THEN st
  ELSE IF check(comparator, end, st.current)
  THEN [values |-> Append(st.values, st.current),
        current |-> st.current + step,
        guard |-> st.guard + 1,
        at |-> IF st.guard + 1 > GuardCap THEN "failed" ELSE "loop"]
  ELSE [st EXCEPT !.at = "left"]

RECURSIVE deriveLoop(_, _, _, _, _)
\* at most n passes of the while loop, from the locals st
deriveLoop(st, n, end, comparator, step) ==
  IF n = 0 \/ st.at # "loop" THEN st
  ELSE IF n = 1 THEN deriveIteration(st, end, comparator, step)
  ELSE deriveLoop(deriveLoop(st, n \div 2, end, comparator, step),
                  n - (n \div 2), end, comparator, step)

\* the guard ends the loop within GuardCap + 1 passes that run the body, and
\* one more pass finds the condition false
deriveCounterValues(start, end, comparator, step) ==
  LET st == deriveLoop(deriveStart(start), GuardCap + 2, end, comparator, step)
  IN  IF st.at = "left"
      THEN Ok([values |-> st.values, next |-> st.current])
      ELSE Fail(TooManyTimes)

(***************************************************************************)
(* The lessons and their texts.                                            *)
(***************************************************************************)
lessons == <<"for", "while", "foreach">>

lessonOrder == <<"start", "condition", "step", "body">>

LessonKey == {lessons[n] : n \in 1..Len(lessons)}

LoopPart == {lessonOrder[n] : n \in 1..Len(lessonOrder)}

defaultText ==
  [for |->
     [start |-> "let i = 1",
      condition |-> "i <= 5",
      step |-> "i = i + 1",
      body |-> "console.log(\"Looping is learning\", i);"],
   while |->
     [start |-> "let i = 1;",
      condition |-> "i <= 5",
      step |-> "i = i + 1;",
      body |-> "console.log(\"Looping is learning\", i);"],
   foreach |->
     [start |-> "const values = [2, 4, 6];",
      condition |-> "values.forEach((value, index) => {",
      step |-> "// forEach moves to the next item automatically",
      body |-> "console.log(\"Value\", index, value);"]]

initialConsole ==
  [for |-> "Console output (like DevTools) will appear here.",
   while |-> "Console output (like DevTools) will appear here.",
   foreach |-> "Console output (like DevTools) will appear here."]

initialTrace ==
  [for |-> "Trace will explain each part of the loop.",
   while |-> "Trace will explain each part of the loop.",
   foreach |-> "Trace will explain each part of the loop."]

initialCounterText(lesson) ==
  IF lesson = "foreach" THEN "index = -- (value --)" ELSE "Counter not started"

\* getSpanText: the trimmed text of a span
getSpanText(span) == Trim(span)

(***************************************************************************)
(* Counter-loop parser.                                                    *)
(***************************************************************************)
NoMatch == [matched |-> FALSE]

\* \s*([a-zA-Z_$][\w$]*)\s*=\s*(-?\d+)$ matched from position i of s
startRest(s, i) ==
  LET a == SkipSpaces(s, i)
      b == IF a <= Len(s) /\ IsIdentStart(CharAt(s, a))
           THEN SkipIdentChars(s, a + 1) ELSE a
      c == SkipSpaces(s, b)
      d == SkipSpaces(s, c + 1)
      e == IF d <= Len(s) /\ CharAt(s, d) = "-" THEN d + 1 ELSE d
      f == SkipDigits(s, e)
  IN  IF b > a /\ c <= Len(s) /\ CharAt(s, c) = "=" /\ f > e /\ f = Len(s) + 1
      THEN [matched |-> TRUE, variable |-> SubSeq(s, a, b - 1),
            number |-> SubSeq(s, d, f - 1)]
      ELSE NoMatch

\* s.match(/^(?:let|const|var)?\s*([a-zA-Z_$][\w$]*)\s*=\s*(-?\d+)$/): the
\* declarator is tried first, then the pattern without it
startMatch(s) ==
  LET declared(word) ==
        IF StartsWith(s, word) THEN startRest(s, Len(word) + 1) ELSE NoMatch
  IN  IF declared("let").matched THEN declared("let")
      ELSE IF declared("const").matched THEN declared("const")
      ELSE IF declared("var").matched THEN declared("var")
      ELSE startRest(s, 1)

\* the captured variable is pasted into the later patterns unescaped: a "$"
\* in it anchors the end of the text in mid-pattern, and nothing matches
UsableInPattern(variable) ==
  \A n \in 1..Len(variable) : CharAt(variable, n) # "$"

\* s.match(new RegExp("^" + variable + "\\s*(<=|>=)\\s*(-?\\d+)$"))
conditionMatch(s, variable) ==
  LET a == SkipSpaces(s, Len(variable) + 1)
      d == SkipSpaces(s, a + 2)
      e == IF d <= Len(s) /\ CharAt(s, d) = "-" THEN d + 1 ELSE d
      f == SkipDigits(s, e)
  IN  IF /\ UsableInPattern(variable)
         /\ StartsWith(s, variable)
         /\ a + 1 <= Len(s)
         /\ SubSeq(s, a, a + 1) \in {"<=", ">="}
         /\ f > e
         /\ f = Len(s) + 1
      THEN [matched |-> TRUE, comparator |-> SubSeq(s, a, a + 1),
            number |-> SubSeq(s, d, f - 1)]
      ELSE NoMatch

\* s.match(new RegExp("^" + variable + "\\s*=\\s*" + variable +
\*                    "\\s*([+-])\\s*(\\d+)$"))
stepMatch(s, variable) ==
  LET a == SkipSpaces(s, Len(variable) + 1)
      b == SkipSpaces(s, a + 1)
      c == SkipSpaces(s, b + Len(variable))
      d == SkipSpaces(s, c + 1)
      f == SkipDigits(s, d)
  IN  IF /\ UsableInPattern(variable)
         /\ StartsWith(s, variable)
         /\ a <= Len(s)
         /\ CharAt(s, a) = "="
         /\ StartsWith(From(s, b), variable)
         /\ c <= Len(s)
         /\ CharAt(s, c) \in {"+", "-"}
         /\ f > d
         /\ f = Len(s) + 1
      THEN [matched |-> TRUE, sign |-> CharAt(s, c), number |-> SubSeq(s, d, f - 1)]
      ELSE NoMatch

RECURSIVE IndexOfFrom(_, _, _)
\* the first position at or after i where the text p starts in s, 0 if none
IndexOfFrom(s, p, i) ==
  IF i + Len(p) - 1 > Len(s) THEN 0
  ELSE IF SubSeq(s, i, i + Len(p) - 1) = p THEN i
  ELSE IndexOfFrom(s, p, i + 1)

RECURSIVE extractMessageFrom(_, _)
\* body.match(/console\.log\((['"])(.*?)\1/) tried from position i on
extractMessageFrom(body, i) ==
  LET at == IndexOfFrom(body, "console.log(", i)
      q == at + 12
      close == IF q <= Len(body) /\ CharAt(body, q) \in {"'", "\""}
               THEN IndexOfFrom(body, CharAt(body, q), q + 1) ELSE 0
  IN  IF at = 0 THEN [found |-> FALSE]
      ELSE IF close > 0 THEN [found |-> TRUE, message |-> SubSeq(body, q + 1, close - 1)]
      ELSE extractMessageFrom(body, at + 1)

\* extractMessage: found = FALSE stands for null
extractMessage(body) == extractMessageFrom(body, 1)

CouldNotReadStart == "Could not read the starting value. Keep it like let i = 1."
CouldNotReadCondition(variable) ==
  "Could not read the condition. Keep it like " \o variable \o " <= 5."
CouldNotReadStep(variable) ==
  "Could not read the step. Keep it like " \o variable \o " = " \o variable \o " + 1."
StepMustChange == "The step must change the counter."
NeedsPositiveStep == "A <= comparison needs a positive step."
NeedsNegativeStep == "A >= comparison needs a negative step."

\* mutant: the two messages change places
signChecksSwapped(comparator, stepValue) ==
  IF comparator = "<=" /\ stepValue <= 0 THEN Fail(NeedsNegativeStep)
  ELSE IF comparator = ">=" /\ stepValue >= 0 THEN Fail(NeedsPositiveStep)
  ELSE Ok(stepValue)

\* the two sign checks of parseCounterConfig: the failure one of them
\* returns, or Ok when the parser goes on
signChecks(comparator, stepValue) ==
  IF comparator = "<=" /\ stepValue <= 0 THEN Fail(NeedsPositiveStep)
  ELSE IF comparator = ">=" /\ stepValue >= 0 THEN Fail(NeedsNegativeStep)
  ELSE Ok(stepValue)

\* parseCounterConfig is modelled stage by stage: each stage is handed what
\* the stages before it have matched and computed.

\* the return of the config, after the derivation of the values; read holds
\* variable, start, comparator, end and step as read from the texts
parseCounterConfigReturn(texts, read, valuesResult, found) ==
  IF ~valuesResult.ok THEN valuesResult
  ELSE Ok([config |->
             [variable |-> read.variable, start |-> read.start,
              comparator |-> read.comparator, end |-> read.end,
              step |-> read.step, values |-> valuesResult.value.values,
              nextValue |-> valuesResult.value.next,
              message |-> IF found.found THEN found.message ELSE "Looping is learning"],
           texts |-> texts])

\* the outcome of the sign checks, then the derivation of the values
parseCounterConfigValues(texts, read, signs) ==
  IF ~signs.ok THEN signs
  ELSE parseCounterConfigReturn(texts, read,
         deriveCounterValues(read.start, read.end, read.comparator, read.step),
         extractMessage(texts.body))

\* mutant: the signs are checked before the magnitude
parseCounterConfigStepSignsFirst(texts, read, stepMatched) ==
  LET stepDirection == IF stepMatched.sign = "+" THEN 1 ELSE -1
      magnitude == DigitsToNumber(stepMatched.number)
      stepValue == stepDirection * magnitude
  IN  IF ~stepMatched.matched THEN Fail(CouldNotReadStep(read.variable))
      ELSE IF ~signChecks(read.comparator, stepValue).ok
      THEN signChecks(read.comparator, stepValue)
      ELSE IF magnitude = 0 THEN Fail(StepMustChange)
      ELSE parseCounterConfigValues(texts,
             [variable |-> read.variable, start |-> read.start,
              comparator |-> read.comparator, end |-> read.end, step |-> stepValue],
             signChecks(read.comparator, stepValue))

\* the outcome of the step match, the magnitude check and the sign checks;
\* read holds variable, start, comparator and end
parseCounterConfigStep(texts, read, stepMatched) ==
  LET stepDirection == IF stepMatched.sign = "+" THEN 1 ELSE -1
      magnitude == DigitsToNumber(stepMatched.number)
      stepValue == stepDirection * magnitude
  IN  IF ~stepMatched.matched THEN Fail(CouldNotReadStep(read.variable))
      ELSE IF magnitude = 0 THEN Fail(StepMustChange)
      ELSE parseCounterConfigValues(texts,
             [variable |-> read.variable, start |-> read.start,
              comparator |-> read.comparator, end |-> read.end, step |-> stepValue],
             signChecks(read.comparator, stepValue))

\* the outcome of the condition match, then the step match
parseCounterConfigCondition(texts, variable, startValue, conditionMatched) ==
  IF ~conditionMatched.matched THEN Fail(CouldNotReadCondition(variable))
  ELSE parseCounterConfigStep(texts,
         [variable |-> variable, start |-> startValue,
          comparator |-> conditionMatched.comparator,
          end |-> SignedToNumber(conditionMatched.number)],
         stepMatch(StripSemicolon(texts.step), variable))

\* the outcome of the start match, then the condition match
parseCounterConfigStart(texts, startMatched) ==
  IF ~startMatched.matched THEN Fail(CouldNotReadStart)
  ELSE parseCounterConfigCondition(texts, startMatched.variable,
         SignedToNumber(startMatched.number),
         conditionMatch(StripSemicolon(texts.condition), startMatched.variable))

\* startText, conditionText, stepText and bodyText of the parsers
SpanTexts(spans) ==
  [start |-> getSpanText(spans.start), condition |-> getSpanText(spans.condition),
   step |-> getSpanText(spans.step), body |-> getSpanText(spans.body)]

\* the match of the start pattern against the start text without its semicolon
startTextMatch(texts) == startMatch(StripSemicolon(texts.start))

\* parseCounterConfig, given the four spans of the lesson
parseCounterConfigTexts(texts) == parseCounterConfigStart(texts, startTextMatch(texts))

parseCounterConfig(spans) == parseCounterConfigTexts(SpanTexts(spans))

(***************************************************************************)
(* Statement templater.  A replacement map is the sequence of its          *)
(* [token, replacement] entries in insertion order (Object.entries).       *)
(***************************************************************************)
\* \b at position p of s (between the characters p - 1 and p)
WordBoundary(s, p) ==
  LET before == p > 1 /\ IsWordChar(CharAt(s, p - 1))
      after == p <= Len(s) /\ IsWordChar(CharAt(s, p))
  IN  before # after

RECURSIVE replaceWordFrom(_, _, _, _)
\* value.replace(new RegExp("\\b" + escapeRegExp(token) + "\\b", "g"),
\* replacement), scanning from position i
replaceWordFrom(value, token, replacement, i) ==
  IF i > Len(value) THEN ""
  ELSE IF /\ i + Len(token) - 1 <= Len(value)
          /\ SubSeq(value, i, i + Len(token) - 1) = token
          /\ WordBoundary(value, i)
          /\ WordBoundary(value, i + Len(token))
  THEN replacement \o replaceWordFrom(value, token, replacement, i + Len(token))
  ELSE CharAt(value, i) \o replaceWordFrom(value, token, replacement, i + 1)

RECURSIVE replaceEntries(_, _, _)
replaceEntries(value, replacements, n) ==
  IF n > Len(replacements) THEN value
  ELSE replaceEntries(
         replaceWordFrom(value, replacements[n].token, replacements[n].replacement, 1),
         replacements, n + 1)

replaceIdentifiers(value, replacements) == replaceEntries(value, replacements, 1)

\* token in replacements
HasToken(replacements, token) ==
  \E n \in 1..Len(replacements) : replacements[n].token = token

\* replacements[token]
Lookup(replacements, token) ==
  replacements[CHOOSE n \in 1..Len(replacements) : replacements[n].token = token].replacement

\* the grave accent, which opens and closes a template literal: a TLA+ string
\* cannot hold that character, so the texts of the model write it as "@",
\* a character the code gives no meaning of its own
Backtick == "@"

RECURSIVE splitScan(_, _, _, _, _, _)
\* the for loop of splitArguments at position i; quote = "" stands for null
splitScan(value, i, args, current, depth, quote) ==
  IF i > Len(value) THEN [args |-> args, current |-> current]
  ELSE LET char == CharAt(value, i) IN
    IF quote # ""
    THEN splitScan(value, i + 1, args, current \o char, depth,
                   IF char = quote /\ CharAt(value, i - 1) # "\\" THEN "" ELSE quote)
    ELSE IF char \in {"\"", "'", Backtick}
    THEN splitScan(value, i + 1, args, current \o char, depth, char)
    ELSE IF char = "("
    THEN splitScan(value, i + 1, args, current \o char, depth + 1, quote)
    ELSE IF char = ")"
    THEN splitScan(value, i + 1, args, current \o char,
                   IF depth > 0 THEN depth - 1 ELSE depth, quote)
    ELSE IF char = "," /\ depth = 0
    THEN splitScan(value, i + 1,
                   IF Len(Trim(current)) > 0 THEN Append(args, Trim(current)) ELSE args,
                   "", depth, quote)
    ELSE splitScan(value, i + 1, args, current \o char, depth, quote)

splitArguments(value) ==
  LET end == splitScan(value, 1, <<>>, "", 0, "")
  IN  IF Len(Trim(end.current)) > 0
      THEN Append(end.args, Trim(end.current))
      ELSE end.args

\* /^-?\d+(?:\.\d+)?$/.test(s)
IsNumberLiteral(s) ==
  LET e == IF Len(s) > 0 /\ CharAt(s, 1) = "-" THEN 2 ELSE 1
      f == SkipDigits(s, e)
      g == IF f <= Len(s) /\ CharAt(s, f) = "." THEN SkipDigits(s, f + 1) ELSE f
  IN  f > e /\ (f = Len(s) + 1 \/ (g > f + 1 /\ g = Len(s) + 1))

\* /^-?\d+$/.test(s)
IsIntegerLiteral(s) ==
  LET e == IF Len(s) > 0 /\ CharAt(s, 1) = "-" THEN 2 ELSE 1
  IN  SkipDigits(s, e) > e /\ SkipDigits(s, e) = Len(s) + 1

\* trimmed.match(/^([a-zA-Z_$][\w$]*)\s*([+-])\s*(-?\d+(?:\.\d+)?)$/)
plusMatch(s) ==
  LET b == IF Len(s) > 0 /\ IsIdentStart(CharAt(s, 1))
           THEN SkipIdentChars(s, 2) ELSE 1
      c == SkipSpaces(s, b)
      d == SkipSpaces(s, c + 1)
  IN  IF /\ b > 1
         /\ c <= Len(s)
         /\ CharAt(s, c) \in {"+", "-"}
         /\ IsNumberLiteral(From(s, d))
      THEN [matched |-> TRUE, base |-> SubSeq(s, 1, b - 1), sign |-> CharAt(s, c),
            number |-> From(s, d)]
      ELSE NoMatch

\* mutant: a subtraction adds
evaluateTokenAdding(token, replacements) ==
  LET trimmed == Trim(token)
      first == CharAt(trimmed, 1)
      last == CharAt(trimmed, Len(trimmed))
      inner == SubSeq(trimmed, 2, Len(trimmed) - 1)
      pm == plusMatch(trimmed)
      baseValue == IF HasToken(replacements, pm.base)
                   THEN Lookup(replacements, pm.base) ELSE pm.base
      finiteBase == IsIntegerLiteral(baseValue) /\ IsIntegerLiteral(pm.number)
      result == SignedToNumber(baseValue) + SignedToNumber(pm.number)
  IN  IF trimmed = "" THEN ""
      ELSE IF (first = "\"" /\ last = "\"") \/ (first = "'" /\ last = "'") THEN inner
      ELSE IF first = Backtick /\ last = Backtick THEN replaceIdentifiers(inner, replacements)
      ELSE IF IsNumberLiteral(trimmed) THEN trimmed
      ELSE IF HasToken(replacements, trimmed) THEN Lookup(replacements, trimmed)
      ELSE IF pm.matched /\ finiteBase THEN NumberToString(result)
      ELSE replaceIdentifiers(trimmed, replacements)

evaluateToken(token, replacements) ==
  LET trimmed == Trim(token)
      first == CharAt(trimmed, 1)
      last == CharAt(trimmed, Len(trimmed))
      inner == SubSeq(trimmed, 2, Len(trimmed) - 1)
      pm == plusMatch(trimmed)
      baseValue == IF HasToken(replacements, pm.base)
                   THEN Lookup(replacements, pm.base) ELSE pm.base
      \* Number(baseValue) is finite for the text of a number; the model's
      \* numbers are integers, a name is never the text of a number
      finiteBase == IsIntegerLiteral(baseValue) /\ IsIntegerLiteral(pm.number)
      numericBase == SignedToNumber(baseValue)
      modifier == SignedToNumber(pm.number)
      result == IF pm.sign = "+" THEN numericBase + modifier ELSE numericBase - modifier
  IN  IF trimmed = "" THEN ""
      ELSE IF (first = "\"" /\ last = "\"") \/ (first = "'" /\ last = "'") THEN inner
      ELSE IF first = Backtick /\ last = Backtick THEN replaceIdentifiers(inner, replacements)
      ELSE IF IsNumberLiteral(trimmed) THEN trimmed
      ELSE IF HasToken(replacements, trimmed) THEN Lookup(replacements, trimmed)
      ELSE IF pm.matched /\ finiteBase THEN NumberToString(result)
      ELSE replaceIdentifiers(trimmed, replacements)

RECURSIVE joinFrom(_, _, _)
joinFrom(lines, separator, n) ==
  IF n > Len(lines) THEN ""
  ELSE IF n = Len(lines) THEN lines[n]
  ELSE lines[n] \o separator \o joinFrom(lines, separator, n + 1)

\* Array.prototype.join
join(lines, separator) == joinFrom(lines, separator, 1)

NotEmpty(part) == Len(part) > 0

\* trimmed.match(/^console\.log\s*\((.*)\)\s*;?$/): the closing bracket is
\* the last one, followed only by spaces and at most one semicolon
consoleLogMatch(trimmed) ==
  LET a == SkipSpaces(trimmed, 12)
      t == TrimEnd(StripSemicolon(trimmed))
  IN  IF /\ StartsWith(trimmed, "console.log")
         /\ a <= Len(trimmed)
         /\ CharAt(trimmed, a) = "("
         /\ Len(t) > a
         /\ CharAt(t, Len(t)) = ")"
      THEN [matched |-> TRUE, args |-> SubSeq(t, a + 1, Len(t) - 1)]
      ELSE NoMatch

\* formatConsoleStatement is modelled stage by stage.

\* mutant: an empty output is returned as it is
formatConsoleStatementOutputBare(trimmed, replacements, output) == output

\* the return of the joined output, or of the statement with its names replaced
formatConsoleStatementOutput(trimmed, replacements, output) ==
  IF Len(output) = 0 THEN replaceIdentifiers(trimmed, replacements) ELSE output

\* mutant: the parts are joined by a comma and a space
formatConsoleStatementArgsComma(trimmed, replacements, args) ==
  IF Len(args) = 0 THEN ""
  ELSE formatConsoleStatementOutput(trimmed, replacements,
         Trim(join(SelectSeq([n \in 1..Len(args) |-> evaluateToken(args[n], replacements)],
                             NotEmpty),
                   ", ")))

\* the arguments are evaluated and those that are not empty are joined
formatConsoleStatementArgs(trimmed, replacements, args) ==
  IF Len(args) = 0 THEN ""
  ELSE formatConsoleStatementOutput(trimmed, replacements,
         Trim(join(SelectSeq([n \in 1..Len(args) |-> evaluateToken(args[n], replacements)],
                             NotEmpty),
                   " ")))

\* the outcome of the console.log match
formatConsoleStatementMatch(trimmed, replacements, match) ==
  IF ~match.matched THEN replaceIdentifiers(trimmed, replacements)
  ELSE formatConsoleStatementArgs(trimmed, replacements, splitArguments(match.args))

formatConsoleStatementTrimmed(trimmed, replacements) ==
  IF trimmed = "" THEN "(no console output)"
  ELSE formatConsoleStatementMatch(trimmed, replacements, consoleLogMatch(trimmed))

formatConsoleStatement(template, replacements) ==
  formatConsoleStatementTrimmed(Trim(template), replacements)

\* mutant: no blanks about the equals sign
formatCounterBare(variable, value) == variable \o "=" \o NumberToString(value)

formatCounter(variable, value) == variable \o " = " \o NumberToString(value)

(***************************************************************************)
(* Iteration-loop parser.                                                  *)
(***************************************************************************)
RECURSIVE LastIndexOf(_, _, _)
\* the last position at or before i where the character c stands in s, 0 if none
LastIndexOf(s, c, i) ==
  IF i < 1 THEN 0 ELSE IF CharAt(s, i) = c THEN i ELSE LastIndexOf(s, c, i - 1)

\* arrayText.match(/\[(.*)\]/): from the first "[" to the last "]" after it
arrayMatch(s) ==
  LET open == IndexOfFrom(s, "[", 1)
      close == LastIndexOf(s, "]", Len(s))
  IN  IF open > 0 /\ close > open
      THEN [matched |-> TRUE, inner |-> SubSeq(s, open + 1, close - 1)]
      ELSE NoMatch

RECURSIVE splitFrom(_, _, _)
\* String.prototype.split on a one-character separator
splitFrom(s, separator, i) ==
  LET at == IndexOfFrom(s, separator, i)
  IN  IF at = 0 THEN <<From(s, i)>>
      ELSE <<SubSeq(s, i, at - 1)>> \o splitFrom(s, separator, at + 1)

split(s, separator) == splitFrom(s, separator, 1)

\* mutant: an item that is no number counts as 0
NumberOfItemLenient(item) ==
  LET digits == IF Len(item) > 0 /\ CharAt(item, 1) \in {"+", "-"}
                THEN From(item, 2) ELSE item
  IN  IF Len(digits) > 0 /\ SkipDigits(digits, 1) = Len(digits) + 1
      THEN [finite |-> TRUE,
            value |-> IF CharAt(item, 1) = "-"
                      THEN 0 - DigitsToNumber(digits) ELSE DigitsToNumber(digits)]
      ELSE [finite |-> TRUE, value |-> 0]

\* Number(item) and Number.isFinite of it.  The numbers of the model are the
\* integers: an item is the text of an integer, with or without a sign, or
\* it is no number at all
NumberOfItem(item) ==
  LET digits == IF Len(item) > 0 /\ CharAt(item, 1) \in {"+", "-"}
                THEN From(item, 2) ELSE item
  IN  IF Len(digits) > 0 /\ SkipDigits(digits, 1) = Len(digits) + 1
      THEN [finite |-> TRUE,
            value |-> IF CharAt(item, 1) = "-"
                      THEN 0 - DigitsToNumber(digits) ELSE DigitsToNumber(digits)]
      ELSE [finite |-> FALSE]

CouldNotReadArray == "Could not read the array. Keep it like const values = [1, 2, 3];"
AddAtLeastOne == "Add at least one number to the array."
OnlyNumbers == "Only numbers are supported in this playground array."

\* parseForEachConfig, given the four spans of the foreach lesson
parseForEachConfig(spans) ==
  LET arrayText == getSpanText(spans.start)
      bodyText == getSpanText(spans.body)
      am == arrayMatch(arrayText)
      pieces == split(am.inner, ",")
      rawItems == SelectSeq([n \in 1..Len(pieces) |-> Trim(pieces[n])], NotEmpty)
      numbers == [n \in 1..Len(rawItems) |-> NumberOfItem(rawItems[n])]
      found == extractMessage(bodyText)
      message == IF found.found THEN found.message ELSE "Value"
  IN  IF ~am.matched THEN Fail(CouldNotReadArray)
      ELSE IF Len(rawItems) = 0 THEN Fail(AddAtLeastOne)
      ELSE IF \E n \in 1..Len(numbers) : ~numbers[n].finite THEN Fail(OnlyNumbers)
      ELSE Ok([config |->
                 [values |-> [n \in 1..Len(numbers) |-> numbers[n].value],
                  message |-> message],
               texts |->
                 [start |-> arrayText, condition |-> getSpanText(spans.condition),
                  step |-> getSpanText(spans.step), body |-> bodyText]])

(***************************************************************************)
(* Loop executors.  A LessonEvent is a record with the field highlight and *)
(* those of trace, console and counter that the event carries.             *)
(***************************************************************************)
Null == "null"

Undefined == "undefined"

\* mutant: the step event shows the counter before the step
counterIterationStale(config, texts, index) ==
  LET value == config.values[index + 1]
      iteration == index + 1
      conditionTrace ==
        "Check " \o config.variable \o " " \o config.comparator \o " "
          \o NumberToString(config.end) \o " with " \o config.variable \o " = "
          \o NumberToString(value) \o " -> " \o "yes"
      bodyTrace ==
        "Body (iteration " \o NumberToString(iteration) \o "): run console.log with "
          \o config.variable \o " = " \o NumberToString(value)
      next == value + config.step
      stepTrace ==
        "Update: " \o Trim(texts.step) \o " -> " \o formatCounter(config.variable, next)
  IN  <<[highlight |-> "condition", trace |-> conditionTrace,
         counter |-> formatCounter(config.variable, value)],
        [highlight |-> "body", trace |-> bodyTrace,
         console |->
           formatConsoleStatement(texts.body,
             <<[token |-> config.variable, replacement |-> NumberToString(value)]>>),
         counter |-> formatCounter(config.variable, value)],
        [highlight |-> "step", trace |-> stepTrace,
         counter |-> formatCounter(config.variable, value)]>>

\* the three events of one callback of config.values.forEach in
\* buildCounterLessonData; index counts from 0; the body event carries the
\* console line the callback pushes
counterIteration(config, texts, index) ==
  LET value == config.values[index + 1]
      iteration == index + 1
      conditionTrace ==
        "Check " \o config.variable \o " " \o config.comparator \o " "
          \o NumberToString(config.end) \o " with " \o config.variable \o " = "
          \o NumberToString(value) \o " -> " \o "yes"
      bodyTrace ==
        "Body (iteration " \o NumberToString(iteration) \o "): run console.log with "
          \o config.variable \o " = " \o NumberToString(value)
      next == value + config.step
      stepTrace ==
        "Update: " \o Trim(texts.step) \o " -> " \o formatCounter(config.variable, next)
  IN  <<[highlight |-> "condition", trace |-> conditionTrace,
         counter |-> formatCounter(config.variable, value)],
        [highlight |-> "body", trace |-> bodyTrace,
         console |->
           formatConsoleStatement(texts.body,
             <<[token |-> config.variable, replacement |-> NumberToString(value)]>>),
         counter |-> formatCounter(config.variable, value)],
        [highlight |-> "step", trace |-> stepTrace,
         counter |-> formatCounter(config.variable, next)]>>

\* the events pushed by the callbacks of values.forEach, in order
\* (iterations[k] holds the events of the callback of index k - 1)
LoopEvents(iterations) ==
  [k \in 1..(3 * Len(iterations)) |-> iterations[((k - 1) \div 3) + 1][((k - 1) % 3) + 1]]

\* the console lines pushed by the callbacks, in order
LoopConsoleLines(iterations) ==
  [k \in 1..Len(iterations) |-> iterations[k][2].console]

\* the trace lines pushed along with the events
TraceOf(events) == [k \in 1..Len(events) |-> events[k].trace]

\* the lesson data, given the events of the start, of the callbacks and of
\* the end
LessonDataOf(startEvents, iterations, endEvents, traceEnd, finalCounter) ==
  [events |-> startEvents \o LoopEvents(iterations) \o endEvents,
   traceLines |-> TraceOf(startEvents) \o TraceOf(LoopEvents(iterations)) \o traceEnd,
   consoleLines |-> LoopConsoleLines(iterations),
   finalCounter |-> finalCounter]

buildCounterLessonData(lesson, parse) ==
  LET config == parse.config
      texts == parse.texts
      startCounter == formatCounter(config.variable, config.start)
      startLabel == IF lesson = "for" THEN "Start" ELSE "Setup"
      startTrace == startLabel \o ": " \o Trim(texts.start) \o " -> " \o startCounter
      finalConditionTrace ==
        "Check " \o config.variable \o " " \o config.comparator \o " "
          \o NumberToString(config.end) \o " with " \o config.variable \o " = "
          \o NumberToString(config.nextValue) \o " -> no"
      finalCounter == formatCounter(config.variable, config.nextValue)
  IN  LessonDataOf(
        <<[highlight |-> "start", trace |-> startTrace, counter |-> startCounter]>>,
        [k \in 1..Len(config.values) |-> counterIteration(config, texts, k - 1)],
        <<[highlight |-> "condition", trace |-> finalConditionTrace,
           counter |-> finalCounter],
          [highlight |-> Null, counter |-> finalCounter]>>,
        <<finalConditionTrace>>,
        finalCounter)

\* an argument that may be missing (null, undefined or left out) is passed
\* as Missing or as Given(number)
Missing == <<>>

Given(number) == <<number>>

\* mutant: the index is shown counted from 1
formatForEachCounterFromOne(index, value, total) ==
  IF index = Missing THEN "index = -- (value --)"
  ELSE IF total # Missing /\ index[1] >= total[1]
  THEN "index = " \o NumberToString(index[1] + 1) \o " (done)"
  ELSE IF value = Missing
  THEN "index = " \o NumberToString(index[1] + 1) \o " (waiting)"
  ELSE "index = " \o NumberToString(index[1] + 1) \o " (value "
         \o NumberToString(value[1]) \o ")"

formatForEachCounter(index, value, total) ==
  IF index = Missing THEN "index = -- (value --)"
  ELSE IF total # Missing /\ index[1] >= total[1]
  THEN "index = " \o NumberToString(index[1]) \o " (done)"
  ELSE IF value = Missing
  THEN "index = " \o NumberToString(index[1]) \o " (waiting)"
  ELSE "index = " \o NumberToString(index[1]) \o " (value "
         \o NumberToString(value[1]) \o ")"

\* array[position] of a 0-based position, undefined beyond the array
ElementAt(array, position) ==
  IF position + 1 \in 1..Len(array) THEN Given(array[position + 1]) ELSE Missing

\* the three events of one callback of config.values.forEach in
\* buildForEachLessonData; index counts from 0; the body event carries the
\* console line the callback pushes
forEachIteration(config, texts, index) ==
  LET value == config.values[index + 1]
      total == Len(config.values)
      conditionTrace == "Check next item (index " \o NumberToString(index) \o ") -> yes"
      bodyTrace ==
        "Callback for index " \o NumberToString(index) \o " with value "
          \o NumberToString(value)
      stepTrace ==
        IF Trim(texts.step) # "" THEN Trim(texts.step)
        ELSE "forEach moves to the next item."
  IN  <<[highlight |-> "condition", trace |-> conditionTrace,
         counter |-> formatForEachCounter(Given(index), Given(value), Given(total))],
        [highlight |-> "body", trace |-> bodyTrace,
         console |->
           formatConsoleStatement(texts.body,
             <<[token |-> "value", replacement |-> NumberToString(value)],
               [token |-> "index", replacement |-> NumberToString(index)]>>),
         counter |-> formatForEachCounter(Given(index), Given(value), Given(total))],
        [highlight |-> "step", trace |-> stepTrace,
         counter |->
           formatForEachCounter(Given(index + 1), ElementAt(config.values, index + 1),
                                Given(total))]>>

buildForEachLessonData(parse) ==
  LET config == parse.config
      texts == parse.texts
      total == Len(config.values)
      startTrace == "Start: array has " \o NumberToString(total) \o " item(s)."
      finalTrace == "Check next item -> no (array finished)."
      finalCounter == formatForEachCounter(Given(total), Missing, Given(total))
  IN  LessonDataOf(
        <<[highlight |-> "start", trace |-> startTrace,
           counter |-> formatForEachCounter(Missing, Missing, Missing)]>>,
        [k \in 1..total |-> forEachIteration(config, texts, k - 1)],
        <<[highlight |-> "condition", trace |-> finalTrace, counter |-> finalCounter],
          [highlight |-> Null, counter |-> finalCounter]>>,
        <<finalTrace>>,
        finalCounter)

\* the lesson data of a counter lesson, given the outcome of its parser
counterLessonData(lesson, parseResult) ==
  IF ~parseResult.ok THEN parseResult
  ELSE Ok(buildCounterLessonData(lesson, parseResult.value))

\* the lesson data of the forEach lesson, given the outcome of its parser
forEachLessonData(parseResult) ==
  IF ~parseResult.ok THEN parseResult
  ELSE Ok(buildForEachLessonData(parseResult.value))

\* collectLessonData, given the spans of all lessons
collectLessonData(lesson, spans) ==
  IF lesson = "foreach"
  THEN forEachLessonData(parseForEachConfig(spans["foreach"]))
  ELSE counterLessonData(lesson, parseCounterConfig(spans[lesson]))

(***************************************************************************)
(* The page: the spans, the output boxes, the highlight, the Next buttons, *)
(* the animation flags and the step cursor.                                *)
(***************************************************************************)
VARIABLES
  text,            \* textContent of the editable span of each lesson and part
  activeParts,     \* the highlighted part of each lesson, Undefined if none
  animationFlags,  \* the animation flag of each lesson
  animationAt,     \* the async walks of animateLesson in progress, for each
                   \* lesson: a walk is the number n of the part after which
                   \* it awaits its timer
  nextDisabled,    \* the disabled property of each Next button
  consoles,        \* textContent of the console box of each lesson
  traces,          \* textContent of the trace box of each lesson
  counters,        \* textContent of the counter box of each lesson
  stepLesson,      \* owner of the step sequence, Null if none
  stepEvents,
  stepIndex,
  stepTrace,
  stepConsole,
  last,            \* history: the latest trigger, its lesson, and whether it
                   \* was an advance that consumed the last event of a sequence
  call,            \* the call of a function on its own: name and arguments
  result           \* the value that call returned, <<>> before the return

vars ==
  <<text, activeParts, animationFlags, animationAt, nextDisabled, consoles,
    traces, counters, stepLesson, stepEvents, stepIndex, stepTrace,
    stepConsole, last, call, result>>

\* the page as one value, handed through the handlers
Page ==
  [text |-> text, activeParts |-> activeParts, animationFlags |-> animationFlags,
   animationAt |-> animationAt, nextDisabled |-> nextDisabled,
   consoles |-> consoles, traces |-> traces, counters |-> counters,
   stepLesson |-> stepLesson, stepEvents |-> stepEvents, stepIndex |-> stepIndex,
   stepTrace |-> stepTrace, stepConsole |-> stepConsole]

\* the page after a handler has run
Becomes(page) ==
  /\ text' = page.text
  /\ activeParts' = page.activeParts
  /\ animationFlags' = page.animationFlags
  /\ animationAt' = page.animationAt
  /\ nextDisabled' = page.nextDisabled
  /\ consoles' = page.consoles
  /\ traces' = page.traces
  /\ counters' = page.counters
  /\ stepLesson' = page.stepLesson
  /\ stepEvents' = page.stepEvents
  /\ stepIndex' = page.stepIndex
  /\ stepTrace' = page.stepTrace
  /\ stepConsole' = page.stepConsole

\* mutant: only the button of the active lesson is written
setNextEnabledActiveOnly(page, active, enabled) ==
  [page EXCEPT !.nextDisabled =
     [lesson \in LessonKey |->
        IF lesson = active THEN ~enabled ELSE page.nextDisabled[lesson]]]

setNextEnabled(page, active, enabled) ==
  [page EXCEPT !.nextDisabled =
     [lesson \in LessonKey |-> ~(enabled /\ lesson = active)]]

\* setActivePart(lesson, part); setActivePart(lesson) passes Undefined
setActivePart(page, lesson, part) ==
  [page EXCEPT !.activeParts[lesson] =
     IF part \in {Null, Undefined} THEN Undefined ELSE part]

\* mutant: the accumulated trace survives
stopSteppingKeepingTrace(page) ==
  LET cleared == IF page.stepLesson # Null
                 THEN setActivePart(page, page.stepLesson, Undefined)
                 ELSE page
  IN  [setNextEnabled(cleared, Null, FALSE) EXCEPT
         !.stepLesson = Null, !.stepEvents = <<>>, !.stepIndex = 0,
         !.stepConsole = <<>>]

stopStepping(page) ==
  LET cleared == IF page.stepLesson # Null
                 THEN setActivePart(page, page.stepLesson, Undefined)
                 ELSE page
  IN  [setNextEnabled(cleared, Null, FALSE) EXCEPT
         !.stepLesson = Null, !.stepEvents = <<>>, !.stepIndex = 0,
         !.stepTrace = <<>>, !.stepConsole = <<>>]

\* mutant: the start span keeps its text
resetLessonKeepingStart(page, lesson) ==
  LET stopped == stopStepping(page)
      restored == [stopped EXCEPT
                     !.text[lesson] =
                        [defaultText[lesson] EXCEPT !.start = stopped.text[lesson].start]]
  IN  [setActivePart(restored, lesson, Undefined) EXCEPT
         !.consoles[lesson] = initialConsole[lesson],
         !.traces[lesson] = initialTrace[lesson],
         !.counters[lesson] = initialCounterText(lesson)]

resetLesson(page, lesson) ==
  LET stopped == stopStepping(page)
      restored == [stopped EXCEPT !.text[lesson] = defaultText[lesson]]
  IN  [setActivePart(restored, lesson, Undefined) EXCEPT
         !.consoles[lesson] = initialConsole[lesson],
         !.traces[lesson] = initialTrace[lesson],
         !.counters[lesson] = initialCounterText(lesson)]

\* mutant: the message reaches the trace box alone
showErrorInTraceOnly(page, lesson, message) ==
  LET shown == [page EXCEPT
                  !.counters[lesson] = initialCounterText(lesson),
                  !.traces[lesson] = "Problem: " \o message]
  IN  setNextEnabled(setActivePart(shown, lesson, Undefined), Null, FALSE)

showError(page, lesson, message) ==
  LET shown == [page EXCEPT
                  !.counters[lesson] = initialCounterText(lesson),
                  !.traces[lesson] = "Problem: " \o message,
                  !.consoles[lesson] = "Problem: " \o message]
  IN  setNextEnabled(setActivePart(shown, lesson, Undefined), Null, FALSE)

\* runLesson after stopStepping and collectLessonData
runLessonCollected(stopped, lesson, collected) ==
  IF ~collected.ok THEN showError(stopped, lesson, collected.error)
  ELSE [setNextEnabled(setActivePart(stopped, lesson, Undefined), Null, FALSE) EXCEPT
          !.counters[lesson] = collected.value.finalCounter,
          !.traces[lesson] =
             IF Len(collected.value.traceLines) # 0
             THEN join(collected.value.traceLines, "\n")
             ELSE "Trace: condition was false, so the body never ran.",
          !.consoles[lesson] =
             IF Len(collected.value.consoleLines) # 0
             THEN join(collected.value.consoleLines, "\n")
             ELSE "Console: nothing was logged."]

\* runLesson after stopStepping
runLessonStopped(stopped, lesson) ==
  runLessonCollected(stopped, lesson, collectLessonData(lesson, stopped.text))

runLesson(page, lesson) == runLessonStopped(stopStepping(page), lesson)

\* stepThroughLesson from the assignment of the cursor on
stepThroughLessonBegun(begun, lesson, data) ==
  IF Len(data.events) = 0
  THEN [setNextEnabled(begun, Null, FALSE) EXCEPT
          !.counters[lesson] = data.finalCounter, !.stepLesson = Null]
  ELSE setNextEnabled(begun, lesson, TRUE)

\* stepThroughLesson after stopStepping and collectLessonData
stepThroughLessonCollected(stopped, lesson, collected) ==
  IF ~collected.ok THEN showError(stopped, lesson, collected.error)
  ELSE stepThroughLessonBegun(
         [setActivePart(stopped, lesson, Undefined) EXCEPT
            !.stepLesson = lesson, !.stepEvents = collected.value.events,
            !.stepIndex = 0, !.stepTrace = <<>>, !.stepConsole = <<>>,
            !.traces[lesson] =
               IF Len(collected.value.events) # 0 THEN "Click Next step to begin."
               ELSE "Nothing to show.",
            !.consoles[lesson] = initialConsole[lesson],
            !.counters[lesson] = initialCounterText(lesson)],
         lesson, collected.value)

\* stepThroughLesson after stopStepping
stepThroughLessonStopped(stopped, lesson) ==
  stepThroughLessonCollected(stopped, lesson, collectLessonData(lesson, stopped.text))

stepThroughLesson(page, lesson) == stepThroughLessonStopped(stopStepping(page), lesson)

\* if (event.field): the event carries the field and its text is not empty
Carries(event, field) == field \in DOMAIN event /\ event[field] # ""

processStepEvent(page, lesson, event) ==
  LET lit == setActivePart(page, lesson, event.highlight)
      counted == IF Carries(event, "counter")
                 THEN [lit EXCEPT !.counters[lesson] = event.counter] ELSE lit
      traced == IF Carries(event, "trace")
                THEN [counted EXCEPT
                        !.stepTrace = Append(@, event.trace),
                        !.traces[lesson] =
                           join(Append(counted.stepTrace, event.trace), "\n")]
                ELSE counted
  IN  IF Carries(event, "console")
      THEN [traced EXCEPT
              !.stepConsole = Append(@, event.console),
              !.consoles[lesson] =
                 join(Append(traced.stepConsole, event.console), "\n")]
      ELSE traced

\* mutant: the sequence is stopped one advance after its last event
advanceStepProcessedLate(processed) ==
  IF processed.stepIndex > Len(processed.stepEvents) THEN stopStepping(processed)
  ELSE processed

\* advanceStep after processStepEvent and the increment of stepIndex
advanceStepProcessed(processed) ==
  IF processed.stepIndex >= Len(processed.stepEvents) THEN stopStepping(processed)
  ELSE processed

\* mutant: an advance moves the cursor past two events
advanceStepSkipping(page, lesson) ==
  IF page.stepLesson # lesson THEN stepThroughLesson(page, lesson)
  ELSE IF page.stepIndex >= Len(page.stepEvents)
  THEN setNextEnabled(page, Null, FALSE)
  ELSE advanceStepProcessed(
         [processStepEvent(page, lesson, page.stepEvents[page.stepIndex + 1]) EXCEPT
            !.stepIndex = @ + 2])

advanceStep(page, lesson) ==
  IF page.stepLesson # lesson THEN stepThroughLesson(page, lesson)
  ELSE IF page.stepIndex >= Len(page.stepEvents)
  THEN setNextEnabled(page, Null, FALSE)
  ELSE advanceStepProcessed(
         [processStepEvent(page, lesson, page.stepEvents[page.stepIndex + 1]) EXCEPT
            !.stepIndex = @ + 1])

\* mutant: the flag is not looked at
animateLessonUnguarded(page, lesson) ==
  [setActivePart([page EXCEPT !.animationFlags[lesson] = TRUE],
                 lesson, lessonOrder[1]) EXCEPT
     !.animationAt[lesson] = Append(@, 1)]

\* the part of animateLesson that runs in the click: the flag is set and a
\* walk starts and runs up to its first await
animateLesson(page, lesson) ==
  IF page.animationFlags[lesson] THEN page
  ELSE [setActivePart([page EXCEPT !.animationFlags[lesson] = TRUE],
                      lesson, lessonOrder[1]) EXCEPT
          !.animationAt[lesson] = Append(@, 1)]

\* the walks but the one at the given place among them
WalksBut(walks, walk) ==
  SubSeq(walks, 1, walk - 1) \o SubSeq(walks, walk + 1, Len(walks))

\* mutant: the walk writes into the trace box as it goes
resumeAnimationTracing(page, lesson, walk) ==
  LET n == page.animationAt[lesson][walk]
  IN  IF n < Len(lessonOrder)
      THEN [setActivePart(page, lesson, lessonOrder[n + 1]) EXCEPT
              !.animationAt[lesson][walk] = n + 1,
              !.traces[lesson] = lessonOrder[n + 1]]
      ELSE [setActivePart(page, lesson, Undefined) EXCEPT
              !.animationFlags[lesson] = FALSE,
              !.animationAt[lesson] = WalksBut(@, walk)]

\* mutant: the walk ends without resetting the flag
resumeAnimationFlagKept(page, lesson, walk) ==
  LET n == page.animationAt[lesson][walk]
  IN  IF n < Len(lessonOrder)
      THEN [setActivePart(page, lesson, lessonOrder[n + 1]) EXCEPT
              !.animationAt[lesson][walk] = n + 1]
      ELSE [setActivePart(page, lesson, Undefined) EXCEPT
              !.animationAt[lesson] = WalksBut(@, walk)]

\* a walk of animateLesson resumed by its timer: the next part, or the end
\* of the walk after the last part
resumeAnimation(page, lesson, walk) ==
  LET n == page.animationAt[lesson][walk]
  IN  IF n < Len(lessonOrder)
      THEN [setActivePart(page, lesson, lessonOrder[n + 1]) EXCEPT
              !.animationAt[lesson][walk] = n + 1]
      ELSE [setActivePart(page, lesson, Undefined) EXCEPT
              !.animationFlags[lesson] = FALSE,
              !.animationAt[lesson] = WalksBut(@, walk)]

RECURSIVE sanitiseFrom(_, _)
\* text.replace(/\s+/g, (match) => (match.includes("\n") ? " " : match))
sanitiseFrom(s, i) ==
  LET j == SkipSpaces(s, i)
      run == SubSeq(s, i, j - 1)
  IN  IF i > Len(s) THEN ""
      ELSE IF j = i THEN CharAt(s, i) \o sanitiseFrom(s, i + 1)
      ELSE (IF \E n \in 1..Len(run) : CharAt(run, n) = "\n" THEN " " ELSE run)
             \o sanitiseFrom(s, j)

sanitiseSpan(spanText) == sanitiseFrom(spanText, 1)

\* the input listener of a span, after the browser has put the typed text
\* into the span
\* mutant: typing does not stop the stepping
inputListenerStepping(page, lesson, part, typed) ==
  [page EXCEPT !.text[lesson][part] = sanitiseSpan(typed)]

inputListener(page, lesson, part, typed) ==
  [stopStepping(page) EXCEPT !.text[lesson][part] = sanitiseSpan(typed)]

\* the click listener of the explain box, on the item of a part
explainClick(page, lesson, part) ==
  setActivePart(stopStepping(page), lesson, part)

(***************************************************************************)
(* The triggers.                                                           *)
(***************************************************************************)
NoCall == [name |-> "none"]

\* the record of a trigger in the history variable
Trigger(name, lesson) == [trigger |-> name, lesson |-> lesson, exhausted |-> FALSE]

\* the page after the start-up code: every lesson reset, no part active
InitPage ==
  /\ text = defaultText
  /\ activeParts = [lesson \in LessonKey |-> Undefined]
  /\ animationFlags = [lesson \in LessonKey |-> FALSE]
  /\ animationAt = [lesson \in LessonKey |-> <<>>]
  /\ nextDisabled = [lesson \in LessonKey |-> TRUE]
  /\ consoles = [lesson \in LessonKey |-> initialConsole[lesson]]
  /\ traces = [lesson \in LessonKey |-> initialTrace[lesson]]
  /\ counters = [lesson \in LessonKey |-> initialCounterText(lesson)]
  /\ stepLesson = Null
  /\ stepEvents = <<>>
  /\ stepIndex = 0
  /\ stepTrace = <<>>
  /\ stepConsole = <<>>
  /\ last = Trigger("load", Null)

pageVars ==
  <<text, activeParts, animationFlags, animationAt, nextDisabled, consoles,
    traces, counters, stepLesson, stepEvents, stepIndex, stepTrace, stepConsole>>

\* click on the Reset button of the lesson
Reset(lesson) ==
  /\ Becomes(resetLesson(Page, lesson))
  /\ last' = Trigger("reset", lesson)
  /\ UNCHANGED <<call, result>>

\* click on the Run button of the lesson
Run(lesson) ==
  /\ Becomes(runLesson(Page, lesson))
  /\ last' = Trigger("run", lesson)
  /\ UNCHANGED <<call, result>>

\* click on the Step button of the lesson
Step(lesson) ==
  /\ Becomes(stepThroughLesson(Page, lesson))
  /\ last' = Trigger("step", lesson)
  /\ UNCHANGED <<call, result>>

\* the advance trigger of the lesson: the click listener of its Next button
\* runs.  The listener holds no test of the disabled property of the button
\* (nextDisabled); a browser keeps the clicks of a user from a disabled
\* button, a dispatched click event reaches the listener all the same, and
\* advanceStep has branches of its own for a trigger that comes when the
\* lesson owns no sequence.  The trigger is modelled as the listener is
\* written, with no guard.
Advance(lesson) ==
  /\ Becomes(advanceStep(Page, lesson))
  /\ last' = [Trigger("advance", lesson) EXCEPT
                !.exhausted = stepLesson = lesson /\ stepIndex + 1 = Len(stepEvents)]
  /\ UNCHANGED <<call, result>>

\* the user types: the span of the part now holds the text typed
Edit(lesson, part, typed) ==
  /\ Becomes(inputListener(Page, lesson, part, typed))
  /\ last' = Trigger("edit", lesson)
  /\ UNCHANGED <<call, result>>

\* click on the item of a part in the explain box of the lesson
SelectPart(lesson, part) ==
  /\ Becomes(explainClick(Page, lesson, part))
  /\ last' = Trigger("select", lesson)
  /\ UNCHANGED <<call, result>>

\* click on the Animate button of the lesson
Animate(lesson) ==
  /\ Becomes(animateLesson(Page, lesson))
  /\ last' = Trigger("animate", lesson)
  /\ UNCHANGED <<call, result>>

\* the timer of wait(650) of a walk of the lesson fires and the walk goes on
Timer(lesson) ==
  /\ \E walk \in DOMAIN animationAt[lesson] :
       Becomes(resumeAnimation(Page, lesson, walk))
  /\ last' = Trigger("timer", lesson)
  /\ UNCHANGED <<call, result>>

(***************************************************************************)
(* The page under the triggers of a user.  The user works through one      *)
(* lesson, the primary one, with every trigger; of a second lesson, the    *)
(* rival, the user clicks Reset, Run and Step and types into its spans.    *)
(***************************************************************************)
\* the texts the user types into a span, besides its default text: in the
\* for lesson a loop that never runs its body and a step of the wrong sign
Typed(lesson, part) ==
  {defaultText[lesson][part]} \cup
    (CASE lesson = "for" /\ part = "start" -> {"let i = 9"}
       [] lesson = "for" /\ part = "step" -> {"i = i - 1"}
       [] OTHER -> {})

\* the items of the explain box the user clicks are those of the first
\* MaxSelectable parts of lessonOrder
MaxSelectable == 1

Selectable == {lessonOrder[n] : n \in 1..MaxSelectable}

Init ==
  /\ InitPage
  /\ call = NoCall
  /\ result = <<>>

PrimaryTrigger(lesson) ==
  \/ Reset(lesson)
  \/ Run(lesson)
  \/ Step(lesson)
  \/ Advance(lesson)
  \/ \E part \in LoopPart : \E typed \in Typed(lesson, part) :
       Edit(lesson, part, typed)
  \/ \E part \in Selectable : SelectPart(lesson, part)

RivalTrigger(lesson) ==
  \/ Reset(lesson)
  \/ Run(lesson)
  \/ Step(lesson)
  \/ \E part \in LoopPart : \E typed \in Typed(lesson, part) :
       Edit(lesson, part, typed)

Next == PrimaryTrigger("for") \/ RivalTrigger("foreach")

Spec == Init /\ [][Next]_vars

(***************************************************************************)
(* The page under demo animations.  The user has typed a start of 5 into   *)
(* the for lesson, a loop of one iteration; the animations of two lessons  *)
(* run and their timers fire while the user works through the for lesson   *)
(* and resets the forEach lesson.                                          *)
(***************************************************************************)
InitAnimate ==
  /\ text = [defaultText EXCEPT !["for"].start = "let i = 5"]
  /\ activeParts = [lesson \in LessonKey |-> Undefined]
  /\ animationFlags = [lesson \in LessonKey |-> FALSE]
  /\ animationAt = [lesson \in LessonKey |-> <<>>]
  /\ nextDisabled = [lesson \in LessonKey |-> TRUE]
  /\ consoles = [lesson \in LessonKey |-> initialConsole[lesson]]
  /\ traces = [lesson \in LessonKey |-> initialTrace[lesson]]
  /\ counters = [lesson \in LessonKey |-> initialCounterText(lesson)]
  /\ stepLesson = Null
  /\ stepEvents = <<>>
  /\ stepIndex = 0
  /\ stepTrace = <<>>
  /\ stepConsole = <<>>
  /\ last = Trigger("edit", "for")
  /\ call = NoCall
  /\ result = <<>>

NextAnimate ==
  \/ \E lesson \in {"for", "foreach"} : Animate(lesson) \/ Timer(lesson)
  \/ Run("for")
  \/ Step("for")
  \/ Advance("for")
  \/ Edit("for", "start", "let i = 5")
  \/ SelectPart("for", "body")
  \/ Reset("foreach")

SpecAnimate == InitAnimate /\ [][NextAnimate]_vars

\* the timer window.setTimeout sets in wait fires after its 650 ms: a walk
\* that waits is resumed in the end
SpecAnimateFair ==
  SpecAnimate /\ \A lesson \in {"for", "foreach"} : WF_vars(Timer(lesson))

(***************************************************************************)
(* deriveCounterValues called on its own, with the arguments of a valid    *)
(* counter config: a step that is not zero and agrees with the comparator. *)
(***************************************************************************)
\* the comparator a step agrees with
ComparatorOf(step) == IF step > 0 THEN "<=" ELSE ">="

Steps == {n \in (0 - MaxStep)..MaxStep : n # 0}

\* ends about the start, and ends at which the loop visits about GuardCap values
EndsOf(start, step) ==
  ((0 - MaxStart - 1)..(MaxStart + 1)) \cup
    {start + (GuardCap - 1 + d) * step : d \in (0 - CapSlack)..CapSlack}

DeriveCalls ==
  UNION {{[name |-> "deriveCounterValues", start |-> start, end |-> end,
           comparator |-> ComparatorOf(step), step |-> step] :
            end \in EndsOf(start, step)} :
           start \in (0 - MaxStart)..MaxStart, step \in Steps}

InitDerive ==
  /\ InitPage
  /\ call \in DeriveCalls
  /\ result = <<>>

\* the call returns
Derive ==
  /\ call.name = "deriveCounterValues"
  /\ result = <<>>
  /\ result' = <<deriveCounterValues(call.start, call.end, call.comparator, call.step)>>
  /\ UNCHANGED <<pageVars, last, call>>

NextDerive == Derive

SpecDerive == InitDerive /\ [][NextDerive]_vars

(***************************************************************************)
(* deriveCounterValues called again and again while the user steps through *)
(* the for lesson.  Here call is the sequence of the calls made so far,    *)
(* each with the owner of the step cursor at the time of the call, and     *)
(* result is the sequence of the outcomes they returned.                   *)
(***************************************************************************)
\* the most calls made in a behaviour
MaxCalls == 3

\* arguments of a loop of two values, of a loop counting down that visits
\* nothing, and of a loop that runs away
RepeatCalls ==
  {[start |-> 1, end |-> 2, comparator |-> "<=", step |-> 1],
   [start |-> 1, end |-> 2, comparator |-> ">=", step |-> -1],
   [start |-> 1, end |-> GuardCap + 1, comparator |-> "<=", step |-> 1]}

InitRepeat ==
  /\ InitPage
  /\ call = <<>>
  /\ result = <<>>

\* mutant: the loop starts where the step cursor stands
DeriveAgainFromCursor ==
  /\ Len(call) < MaxCalls
  /\ \E args \in RepeatCalls :
       /\ call' = Append(call, [args |-> args, owner |-> stepLesson])
       /\ result' = Append(result,
            deriveCounterValues(args.start + stepIndex, args.end, args.comparator,
                                args.step))
  /\ UNCHANGED <<pageVars, last>>

\* a call of deriveCounterValues is made and returns
DeriveAgain ==
  /\ Len(call) < MaxCalls
  /\ \E args \in RepeatCalls :
       /\ call' = Append(call, [args |-> args, owner |-> stepLesson])
       /\ result' = Append(result,
            deriveCounterValues(args.start, args.end, args.comparator, args.step))
  /\ UNCHANGED <<pageVars, last>>

NextRepeat == DeriveAgain \/ Step("for") \/ Advance("for")

SpecRepeat == InitRepeat /\ [][NextRepeat]_vars

(***************************************************************************)
(* parseCounterConfig and collectLessonData called on their own, with the  *)
(* spans of a counter lesson holding a loop header as a user writes it.    *)
(***************************************************************************)
\* the end of the default condition
DefaultEnd == 5

\* what the user means to write: a declaration of the counter, a condition
\* and a step, with or without the semicolons of the while lesson
Givens ==
  [variable : {"i"},
   start : (0 - MaxStart)..MaxStart,
   comparator : {"<=", ">="},
   end : ((0 - MaxStart - 1)..(MaxStart + 1)) \cup {DefaultEnd},
   sign : {"+", "-"},
   magnitude : 0..MaxStep,
   semicolon : {"", ";"}]

\* the four spans of a lesson with the texts of what the user means
SpansOf(given) ==
  [start |-> "let " \o given.variable \o " = " \o NumberToString(given.start)
               \o given.semicolon,
   condition |-> given.variable \o " " \o given.comparator \o " "
                   \o NumberToString(given.end),
   step |-> given.variable \o " = " \o given.variable \o " " \o given.sign \o " "
              \o NumberToString(given.magnitude) \o given.semicolon,
   body |-> defaultText["for"].body]

CounterLessons == {"for", "while"}

ParseCalls ==
  {[name |-> "parseCounterConfig", lesson |-> lesson, given |-> given,
    spans |-> SpansOf(given)] : lesson \in {"for"}, given \in Givens}
    \cup
  {[name |-> "collectLessonData", lesson |-> lesson, given |-> given,
    spans |-> SpansOf(given)] : lesson \in CounterLessons, given \in Givens}

InitParse ==
  /\ InitPage
  /\ call \in ParseCalls
  /\ result = <<>>

\* parseCounterConfig returns
Parse ==
  /\ call.name = "parseCounterConfig"
  /\ result = <<>>
  /\ result' = <<parseCounterConfig(call.spans)>>
  /\ UNCHANGED <<pageVars, last, call>>

\* collectLessonData returns; the spans of the other lessons hold their
\* default texts
Collect ==
  /\ call.name = "collectLessonData"
  /\ result = <<>>
  /\ result' =
       <<collectLessonData(call.lesson, [defaultText EXCEPT ![call.lesson] = call.spans])>>
  /\ UNCHANGED <<pageVars, last, call>>

NextParse == Parse \/ Collect

SpecParse == InitParse /\ [][NextParse]_vars

(***************************************************************************)
(* Functions of the core called on their own, one call in a behaviour:     *)
(* collectLessonData for the forEach lesson, with the start span holding   *)
(* an array as a user writes it; formatConsoleStatement with a logging     *)
(* call; parseCounterConfig with spans that hold several defects at once.  *)
(***************************************************************************)
\* the longest array the user writes
MaxItems == 3

\* collectLessonData and parseForEachConfig with the spans of the forEach
\* lesson: an array of at most MaxItems items (numbers, a name that is no
\* number, a number that is not finite, an item left empty) and the step
\* span holding its default comment or nothing
ForEachCalls ==
  LET ItemTexts == {"2", "4", "6", "-6", "x", "Infinity", ""}
      ItemLists == UNION {[1..n -> ItemTexts] : n \in 0..MaxItems}
      StepTexts == {defaultText["foreach"].step, ""}
      ForEachSpans(items, stepText) ==
        [defaultText["foreach"] EXCEPT
           !.start = "const values = [" \o join(items, ", ") \o "];",
           !.step = stepText]
  IN  {[name |-> name, lesson |-> "foreach", items |-> items,
        spans |-> ForEachSpans(items, stepText)] :
          name \in {"collectLessonData", "parseForEachConfig"},
          items \in ItemLists, stepText \in StepTexts}

\* the most arguments of a logging call
MaxArgs == 2

\* formatConsoleStatement with a logging call of at most MaxArgs arguments
\* and a map that binds i.  An argument is given with what it is: a literal
\* in quotes with its inner text, the bound name, the name plus or minus a
\* number (delta is the number added), or something else.  The call is
\* written with or without blanks about it and its semicolon; a template may
\* also be empty or blank
FormatCalls ==
  LET Form(written, kind, inner, delta) ==
        [text |-> written, kind |-> kind, inner |-> inner, delta |-> delta]
      Forms ==
        {Form("\"Hello\"", "literal", "Hello", 0), Form("'Hi'", "literal", "Hi", 0),
         Form("\"\"", "literal", "", 0), Form("\" a\"", "literal", " a", 0),
         Form("\" \"", "literal", " ", 0),
         Form("\"a, b\"", "literal", "a, b", 0), Form("\"i\"", "literal", "i", 0),
         Form("i", "name", "", 0),
         Form("i + 1", "sum", "", 1), Form("i - 2", "sum", "", -2),
         Form("i+1", "sum", "", 1), Form("i - -1", "sum", "", 1),
         Form("7", "other", "", 0), Form("j", "other", "", 0),
         Form(Backtick \o "i" \o Backtick, "other", "", 0)}
      Lists == UNION {[1..n -> Forms] : n \in 0..MaxArgs}
      Texts(list) == [n \in 1..Len(list) |-> list[n].text]
      Shapes == {<<"console.log(", ");">>, <<"  console.log (", ") ">>}
      Bindings == {"3", "4", "-1"}
  IN  {[name |-> "formatConsoleStatement", args |-> list,
        template |-> shape[1] \o join(Texts(list), ", ") \o shape[2],
        replacements |-> <<[token |-> "i", replacement |-> bound]>>] :
          list \in Lists, shape \in Shapes, bound \in Bindings}
        \cup
      {[name |-> "formatConsoleStatement", args |-> <<>>, template |-> blank,
        replacements |-> <<[token |-> "i", replacement |-> bound]>>] :
          blank \in {"", "   "}, bound \in Bindings}

\* parseCounterConfig with the spans of a counter lesson that hold any of
\* six defects at once: a start that is no number, a comparator that is
\* not supported, a step in a notation that is not supported, a step of
\* zero, a step against the comparator, an end too far away to reach in
\* GuardCap iterations
OrderCalls ==
  LET Defects == {"start", "condition", "step", "zero", "sign", "runaway"}
      Has(defects, defect) == defect \in defects
      Up(comparator) == comparator = "<="
      StartOf(defects) == IF Has(defects, "start") THEN "let i = one" ELSE "let i = 1"
      EndOf(defects, comparator) ==
        IF Has(defects, "runaway")
        THEN (IF Up(comparator) THEN "1000" ELSE "-1000")
        ELSE (IF Up(comparator) THEN "5" ELSE "-5")
      ConditionOf(defects, comparator) ==
        "i " \o (IF Has(defects, "condition") THEN SubSeq(comparator, 1, 1) ELSE comparator)
          \o " " \o EndOf(defects, comparator)
      SignOf(defects, comparator) ==
        IF Up(comparator) = Has(defects, "sign") THEN "-" ELSE "+"
      MagnitudeOf(defects) == IF Has(defects, "zero") THEN "0" ELSE "1"
      StepTextOf(defects, comparator) ==
        IF Has(defects, "step")
        THEN "i " \o SignOf(defects, comparator) \o "= " \o MagnitudeOf(defects)
        ELSE "i = i " \o SignOf(defects, comparator) \o " " \o MagnitudeOf(defects)
  IN  {[name |-> "parseCounterConfig", defects |-> defects, comparator |-> comparator,
        spans |-> [start |-> StartOf(defects),
                   condition |-> ConditionOf(defects, comparator),
                   step |-> StepTextOf(defects, comparator),
                   body |-> defaultText["for"].body]] :
          defects \in SUBSET Defects, comparator \in {"<=", ">="}}

InitCalls ==
  /\ InitPage
  /\ call \in ForEachCalls \cup FormatCalls \cup OrderCalls
  /\ result = <<>>

\* formatConsoleStatement returns
Format ==
  /\ call.name = "formatConsoleStatement"
  /\ result = <<>>
  /\ result' = <<formatConsoleStatement(call.template, call.replacements)>>
  /\ UNCHANGED <<pageVars, last, call>>

\* parseForEachConfig returns
ParseForEach ==
  /\ call.name = "parseForEachConfig"
  /\ result = <<>>
  /\ result' = <<parseForEachConfig(call.spans)>>
  /\ UNCHANGED <<pageVars, last, call>>

NextCalls == Collect \/ Format \/ Parse \/ ParseForEach

SpecCalls == InitCalls /\ [][NextCalls]_vars

(***************************************************************************)
(* Properties of deriveCounterValues.                                      *)
(***************************************************************************)
Returned == result # <<>>

\* the comparison of the loop condition, as the lesson text reads it
Holds(value, comparator, end) ==
  (comparator = "<=" /\ value <= end) \/ (comparator = ">=" /\ value >= end)

\* the number of leading terms of start, start + step, ... that satisfy the
\* comparator against end, for a step that agrees with the comparator
Visits(c) ==
  IF ~Holds(c.start, c.comparator, c.end) THEN 0
  ELSE IF c.comparator = "<=" THEN ((c.end - c.start) \div c.step) + 1
  ELSE ((c.start - c.end) \div (0 - c.step)) + 1

\* C5: deriveCounterValues succeeds exactly when the loop visits at most 200
\* values, a loop of exactly 200 values included; when the loop would visit
\* more it returns the failure with the message "This loop would run too
\* many times. Adjust the numbers." and no value list.
C5_CapAt200 ==
  (call.name = "deriveCounterValues" /\ Returned) =>
    /\ result[1].ok <=> Visits(call) <= 200
    /\ result[1].ok => Len(result[1].value.values) = Visits(call)
    /\ ~result[1].ok =>
         result[1] = [ok |-> FALSE,
                      error |-> "This loop would run too many times. Adjust the numbers."]

\* a loop of exactly 200 values has returned its values
C5_Witness ==
  /\ call.name = "deriveCounterValues"
  /\ Returned
  /\ Visits(call) = 200
  /\ result[1].ok
  /\ Len(result[1].value.values) = 200

\* C6: on success values holds exactly the leading terms start, start + step,
\* ... that satisfy the comparator against end, and next = start +
\* length(values) * step is the first term that does not; when start fails
\* the comparison values is empty and next = start.
C6_LeadingTerms ==
  (call.name = "deriveCounterValues" /\ Returned /\ result[1].ok) =>
    LET values == result[1].value.values
        next == result[1].value.next
    IN  /\ \A k \in 1..Len(values) :
             /\ values[k] = call.start + (k - 1) * call.step
             /\ Holds(values[k], call.comparator, call.end)
        /\ next = call.start + Len(values) * call.step
        /\ ~Holds(next, call.comparator, call.end)
        /\ ~Holds(call.start, call.comparator, call.end) =>
             (values = <<>> /\ next = call.start)

\* a loop of several values has returned them
C6_Witness ==
  /\ call.name = "deriveCounterValues"
  /\ Returned
  /\ result[1].ok
  /\ Len(result[1].value.values) >= 3
  /\ call.step \notin {1, -1}

\* ceil(a / b) for b # 0
CeilDiv(a, b) ==
  LET n == IF b < 0 THEN 0 - a ELSE a
      d == IF b < 0 THEN 0 - b ELSE b
  IN  0 - ((0 - n) \div d)

StepSign(comparator) == IF comparator = "<=" THEN 1 ELSE -1

\* the formula of the claim: ceil((end - start + step_sign) / step)
CeilFormula(c) == CeilDiv(c.end - c.start + StepSign(c.comparator), c.step)

\* C7 as stated: for a valid counter config whose derivation succeeds the
\* length of values equals ceil((end - start + step_sign) / step) and is at
\* most 200.
C7_Original ==
  (call.name = "deriveCounterValues" /\ Returned /\ result[1].ok) =>
    /\ Len(result[1].value.values) = CeilFormula(call)
    /\ Len(result[1].value.values) <= 200

\* C7 amended: the length of values equals ceil((end - start + step_sign) /
\* step) when start satisfies the comparator and 0 when it does not, that
\* is max(0, ceil(...)), and is at most 200.
C7_LengthFormula ==
  (call.name = "deriveCounterValues" /\ Returned /\ result[1].ok) =>
    /\ Len(result[1].value.values) =
         IF CeilFormula(call) > 0 THEN CeilFormula(call) ELSE 0
    /\ Holds(call.start, call.comparator, call.end) =>
         Len(result[1].value.values) = CeilFormula(call)
    /\ Len(result[1].value.values) <= 200

\* a loop whose start misses the end by more than a step has returned no values
C7_Witness ==
  /\ call.name = "deriveCounterValues"
  /\ Returned
  /\ result[1].ok
  /\ CeilFormula(call) < 0
  /\ result[1].value.values = <<>>

(***************************************************************************)
(* Properties of the step cursor, of reset and of the handlers.            *)
(***************************************************************************)
\* the events the build function produces for the text of the lesson
BuiltEvents(lesson) == collectLessonData(lesson, text).value.events

\* the texts of a field that the first k events carry, in order
ShownOf(events, k, field) ==
  LET has(event) == field \in DOMAIN event /\ event[field] # ""
      kept == SelectSeq(SubSeq(events, 1, k), has)
  IN  [n \in 1..Len(kept) |-> kept[n][field]]

RECURSIVE LinesOf(_)
\* texts shown one per line
LinesOf(texts) ==
  IF texts = <<>> THEN ""
  ELSE IF Len(texts) = 1 THEN texts[1]
  ELSE texts[1] \o "\n" \o LinesOf(Tail(texts))

\* C1: while lesson L owns the step sequence, the advance trigger of L at
\* cursor k - 1 processes exactly the k-th event of the list the build
\* function produces for the text of L: the boxes then show the trace
\* and console lines of the first k events and the counter and highlight of
\* the k-th, the cursor grows by exactly 1, and the advance that consumes
\* the last event ends the sequence.
C1_AdvanceConsumesOne ==
  [][\A L \in LessonKey : (stepLesson = L /\ Advance(L)) =>
       LET k == stepIndex + 1
           event == BuiltEvents(L)[k]
           traced == ShownOf(BuiltEvents(L), k, "trace")
           logged == ShownOf(BuiltEvents(L), k, "console")
       IN  /\ collectLessonData(L, text).ok
           /\ stepEvents = BuiltEvents(L)
           /\ k \in 1..Len(stepEvents)
           /\ stepTrace = ShownOf(stepEvents, k - 1, "trace")
           /\ stepConsole = ShownOf(stepEvents, k - 1, "console")
           /\ traces'[L] = IF traced = <<>> THEN traces[L] ELSE LinesOf(traced)
           /\ consoles'[L] = IF logged = <<>> THEN consoles[L] ELSE LinesOf(logged)
           /\ counters'[L] = IF "counter" \in DOMAIN event THEN event.counter
                              ELSE counters[L]
           /\ activeParts'[L] = IF event.highlight = "null" THEN "undefined"
                                 ELSE event.highlight
           /\ IF k < Len(stepEvents)
              THEN /\ stepLesson' = L
                   /\ stepIndex' = k
                   /\ stepEvents' = stepEvents
                   /\ stepTrace' = traced
                   /\ stepConsole' = logged
              ELSE stepLesson' = "null"]_vars

\* the sixth advance of a sequence of the for lesson has processed the body
\* event of the second iteration
C1_Witness ==
  /\ last = [trigger |-> "advance", lesson |-> "for", exhausted |-> FALSE]
  /\ stepLesson = "for"
  /\ stepIndex = 6
  /\ Len(stepTrace) = 6
  /\ Len(stepConsole) = 2
  /\ activeParts["for"] = "body"

\* C2 as stated: once the step sequence of lesson L is exhausted, a further
\* advance trigger of L changes nothing on the page: no trace, console,
\* counter or highlight, no Next button, and the step cursor stays as it is;
\* no new step sequence starts.
C2_ExhaustedAdvanceIsNoOp ==
  [][\A L \in LessonKey :
       (last.trigger = "advance" /\ last.lesson = L /\ last.exhausted /\ Advance(L))
         => UNCHANGED pageVars]_vars

\* no step sequence is in progress and the cursor is empty
CursorCleared ==
  /\ stepLesson = "null"
  /\ stepEvents = <<>>
  /\ stepIndex = 0
  /\ stepTrace = <<>>
  /\ stepConsole = <<>>

\* lesson L owns a sequence that has not yet processed an event
CursorFresh(L) ==
  /\ stepLesson = L
  /\ stepIndex = 0
  /\ stepTrace = <<>>
  /\ stepConsole = <<>>

\* C3: one lesson at most owns a step sequence.  After a reset and after a
\* text edit no sequence is in progress and the cursor is empty (no owner, no
\* events, index 0, no accumulated trace or console); after a step request
\* of lesson L the cursor is either empty or that of a fresh sequence of L,
\* and a different lesson that owned the sequence before has lost its
\* highlight and its Next button; the events under the cursor are always
\* those built from the present text of the owner, none of them processed
\* yet from the cursor on, so no event of a cleared sequence is processed
\* later.
C3_SingleOwner ==
  /\ [](\A L \in LessonKey : stepLesson = L =>
          /\ collectLessonData(L, text).ok
          /\ stepEvents = BuiltEvents(L)
          /\ stepIndex < Len(stepEvents)
          /\ \A other \in LessonKey \ {L} : nextDisabled[other])
  /\ [](stepLesson = "null" => CursorCleared)
  /\ [][\A L \in LessonKey :
          /\ (last'.trigger \in {"reset", "edit"} /\ last'.lesson = L) => CursorCleared'
          /\ (last'.trigger = "step" /\ last'.lesson = L) =>
               /\ CursorCleared' \/ CursorFresh(L)'
               /\ \A old \in LessonKey \ {L} :
                    stepLesson = old =>
                      (activeParts'[old] = "undefined" /\ nextDisabled'[old])]_vars

\* the step request of the forEach lesson has taken the cursor from a
\* sequence of the for lesson that had processed some of its events
C3_Witness ==
  /\ last = [trigger |-> "step", lesson |-> "foreach", exhausted |-> FALSE]
  /\ stepLesson = "foreach"
  /\ stepIndex = 0
  /\ stepTrace = <<>>
  /\ counters["for"] = "i = 2"
  /\ nextDisabled["for"]

\* C4: a reset of lesson L sets the four fragments of L to their default
\* texts, clears the highlight of L, restores the initial trace, console and
\* counter texts of L and leaves no step sequence in progress.
C4_ResetRestores ==
  [][\A L \in LessonKey : Reset(L) =>
       /\ \A part \in {"start", "condition", "step", "body"} :
            text'[L][part] = defaultText[L][part]
       /\ activeParts'[L] = "undefined"
       /\ traces'[L] = "Trace will explain each part of the loop."
       /\ consoles'[L] = "Console output (like DevTools) will appear here."
       /\ counters'[L] = IF L = "foreach" THEN "index = -- (value --)"
                          ELSE "Counter not started"
       /\ stepLesson' = "null"
       /\ stepEvents' = <<>>
       /\ stepIndex' = 0
       /\ \A other \in LessonKey : nextDisabled'[other]]_vars

\* the for lesson has been reset while the forEach lesson still shows the
\* start of a step sequence, which is no longer in progress
C4_Witness ==
  /\ last = [trigger |-> "reset", lesson |-> "for", exhausted |-> FALSE]
  /\ text["for"] = defaultText["for"]
  /\ activeParts["for"] = "undefined"
  /\ traces["for"] = "Trace will explain each part of the loop."
  /\ traces["foreach"] = "Click Next step to begin."
  /\ stepLesson = "null"
  /\ nextDisabled["foreach"]

(***************************************************************************)
(* Properties of the counter parser and of the counter lessons.            *)
(***************************************************************************)
\* C8: a counter lesson whose condition uses <= with a negative step fails
\* with exactly "A <= comparison needs a positive step.", one whose
\* condition uses >= with a positive step fails with exactly "A >=
\* comparison needs a negative step."; the failure holds no lesson data and
\* no config, and every config parsed has step > 0 with <= and step < 0
\* with >=.
C8_SignCoherence ==
  (call.name \in {"parseCounterConfig", "collectLessonData"} /\ Returned) =>
    /\ (call.given.comparator = "<=" /\ call.given.sign = "-" /\ call.given.magnitude > 0)
         => result[1] = [ok |-> FALSE, error |-> "A <= comparison needs a positive step."]
    /\ (call.given.comparator = ">=" /\ call.given.sign = "+" /\ call.given.magnitude > 0)
         => result[1] = [ok |-> FALSE, error |-> "A >= comparison needs a negative step."]
    /\ ~result[1].ok => DOMAIN result[1] = {"ok", "error"}
    /\ (call.name = "parseCounterConfig" /\ result[1].ok) =>
         LET config == result[1].value.config
         IN  /\ config.comparator = call.given.comparator
             /\ config.comparator = "<=" => config.step > 0
             /\ config.comparator = ">=" => config.step < 0
             /\ config.step \in {call.given.magnitude, 0 - call.given.magnitude}

\* a lesson counting down to a condition with <= has been refused
C8_Witness ==
  /\ call.name = "collectLessonData"
  /\ Returned
  /\ call.given.comparator = "<="
  /\ call.given.sign = "-"
  /\ call.given.magnitude = 2
  /\ ~result[1].ok

\* C9: the four default fragments of the for lesson, let i = 1, i <= 5,
\* i = i + 1 and the default logging body, parse successfully and give
\* exactly the five visited values 1, 2, 3, 4, 5 and the final counter
\* "i = 6".
C9_ForDefaults ==
  /\ defaultText["for"] =
       [start |-> "let i = 1", condition |-> "i <= 5", step |-> "i = i + 1",
        body |-> "console.log(\"Looping is learning\", i);"]
  /\ (call.name = "parseCounterConfig" /\ call.spans = defaultText["for"] /\ Returned) =>
       /\ result[1].ok
       /\ result[1].value.config.values = <<1, 2, 3, 4, 5>>
       /\ result[1].value.config.nextValue = 6
  /\ (call.name = "collectLessonData" /\ call.lesson = "for"
        /\ call.spans = defaultText["for"] /\ Returned) =>
       /\ result[1].ok
       /\ result[1].value.finalCounter = "i = 6"
       /\ result[1].value.consoleLines =
            <<"Looping is learning 1", "Looping is learning 2", "Looping is learning 3",
              "Looping is learning 4", "Looping is learning 5">>
       /\ Len(result[1].value.events) = 18

\* the lesson data of the default for loop has been collected
C9_Witness ==
  /\ call.name = "collectLessonData"
  /\ call.lesson = "for"
  /\ call.spans = defaultText["for"]
  /\ Returned
  /\ result[1].ok
  /\ Len(result[1].value.consoleLines) = 5

\* C10: the default fragments of the while lesson, with their semicolons,
\* give the same visited values and the same final counter as those of the
\* for lesson; and on the same four fragments the while lesson and the for
\* lesson agree in everything (success or the same failure, final counter,
\* console lines, events) but the label of the first trace line, "Setup"
\* in place of "Start".
C10_WhileAsFor ==
  /\ (call.name = "parseCounterConfig" /\ call.spans = defaultText["while"] /\ Returned) =>
       /\ result[1].ok
       /\ result[1].value.config.values = <<1, 2, 3, 4, 5>>
       /\ result[1].value.config.values =
            parseCounterConfig(defaultText["for"]).value.config.values
  /\ (call.name = "collectLessonData" /\ call.lesson = "while" /\ Returned) =>
       LET asFor == collectLessonData("for", [defaultText EXCEPT !["for"] = call.spans])
           asWhile == result[1]
           later(lines) == SubSeq(lines, 2, Len(lines))
       IN  /\ asWhile.ok = asFor.ok
           /\ ~asWhile.ok => asWhile = asFor
           /\ asWhile.ok =>
                /\ asWhile.value.finalCounter = asFor.value.finalCounter
                /\ asWhile.value.consoleLines = asFor.value.consoleLines
                /\ later(asWhile.value.events) = later(asFor.value.events)
                /\ later(asWhile.value.traceLines) = later(asFor.value.traceLines)
                /\ asWhile.value.events[1] =
                     [asFor.value.events[1] EXCEPT !.trace = asWhile.value.traceLines[1]]
                /\ SubSeq(asWhile.value.traceLines[1], 1, 5) = "Setup"
                /\ SubSeq(asFor.value.traceLines[1], 1, 5) = "Start"
                /\ From(asWhile.value.traceLines[1], 6) = From(asFor.value.traceLines[1], 6)
           /\ call.spans = defaultText["while"] =>
                /\ asWhile.ok
                /\ asWhile.value.finalCounter = "i = 6"
                /\ asWhile.value.finalCounter =
                     collectLessonData("for", defaultText).value.finalCounter
                /\ asWhile.value.consoleLines =
                     collectLessonData("for", defaultText).value.consoleLines

\* the lesson data of the default while loop has been collected
C10_Witness ==
  /\ call.name = "collectLessonData"
  /\ call.lesson = "while"
  /\ call.spans = defaultText["while"]
  /\ call.spans # defaultText["for"]
  /\ Returned
  /\ result[1].ok
  /\ result[1].value.finalCounter = "i = 6"

(***************************************************************************)
(* Properties of the forEach lesson.                                       *)
(***************************************************************************)
\* the counters of the events of the given highlight, in order
CountersOf(events, highlight) ==
  LET chosen == SelectSeq(events, LAMBDA event : event.highlight = highlight)
  IN  [k \in 1..Len(chosen) |-> chosen[k].counter]

\* the highlights of the events, in order
HighlightsOf(events) == [k \in 1..Len(events) |-> events[k].highlight]

\* C11: the forEach defaults, the array [2, 4, 6], give exactly 3 groups
\* of events (condition, body, step) between the start event and the two
\* closing events; the condition and the body event of the items carry the
\* counters "index = 0 (value 2)", "index = 1 (value 4)" and
\* "index = 2 (value 6)", and the final counter is "index = 3 (done)".
C11_ForEachDefaults ==
  /\ defaultText["foreach"].start = "const values = [2, 4, 6];"
  /\ (call.name = "collectLessonData" /\ call.lesson = "foreach"
        /\ call.spans = defaultText["foreach"] /\ Returned) =>
       /\ result[1].ok
       /\ HighlightsOf(result[1].value.events) =
            <<"start", "condition", "body", "step", "condition", "body", "step",
              "condition", "body", "step", "condition", Null>>
       /\ SubSeq(CountersOf(result[1].value.events, "condition"), 1, 3) =
            <<"index = 0 (value 2)", "index = 1 (value 4)", "index = 2 (value 6)">>
       /\ CountersOf(result[1].value.events, "body") =
            <<"index = 0 (value 2)", "index = 1 (value 4)", "index = 2 (value 6)">>
       /\ Len(result[1].value.consoleLines) = 3
       /\ result[1].value.finalCounter = "index = 3 (done)"
       /\ result[1].value.events[12].counter = "index = 3 (done)"

\* the lesson data of the default forEach lesson has been collected
C11_Witness ==
  /\ call.name = "collectLessonData"
  /\ call.lesson = "foreach"
  /\ call.spans = defaultText["foreach"]
  /\ Returned
  /\ result[1].ok
  /\ Len(result[1].value.events) = 12

(***************************************************************************)
(* Properties of the page: failures and animations.                        *)
(***************************************************************************)
\* C12: whenever a run or a step request of lesson L finds that the texts
\* of L fail to parse or to derive, the handler completes and the trace box
\* and the console box of L show "Problem: " followed by the message of the
\* failure, the counter box of L shows its initial text, the text of every
\* span of every lesson is as before, no step sequence is in progress and
\* no Next button is enabled.
C12_FailureShown ==
  [][\A L \in LessonKey :
       (/\ last'.trigger \in {"run", "step"}
        /\ last'.lesson = L
        /\ ~collectLessonData(L, text).ok) =>
         /\ DOMAIN collectLessonData(L, text) = {"ok", "error"}
         /\ traces'[L] = "Problem: " \o collectLessonData(L, text).error
         /\ consoles'[L] = "Problem: " \o collectLessonData(L, text).error
         /\ counters'[L] = initialCounterText(L)
         /\ text' = text
         /\ CursorCleared'
         /\ \A M \in LessonKey : nextDisabled'[M]]_vars

\* a step request of the for lesson has failed on a step of the wrong sign,
\* while the lesson counts up
C12_Witness ==
  /\ last.trigger = "step"
  /\ last.lesson = "for"
  /\ text["for"].step = "i = i - 1"
  /\ text["for"].condition = "i <= 5"
  /\ traces["for"] = "Problem: A <= comparison needs a positive step."
  /\ consoles["for"] = traces["for"]
  /\ stepLesson = Null

\* the animate or timer trigger of lesson L has just run
AnimationStepOf(L) == last.trigger \in {"animate", "timer"} /\ last.lesson = L

\* C13: at most one demo animation runs per lesson at any time: the number
\* of walks of a lesson is 1 while its flag is set and 0 otherwise; an
\* animate trigger of lesson L that comes while the flag of L is set starts
\* no walk and changes nothing of the page; and no step of an animation of
\* L changes the flag, the walks or the highlighted part of another lesson.
C13_OneAnimation ==
  /\ [](\A L \in LessonKey :
          Len(animationAt[L]) = (IF animationFlags[L] THEN 1 ELSE 0))
  /\ [][\A L \in LessonKey :
          /\ (animationFlags[L] /\ AnimationStepOf(L)' /\ last'.trigger = "animate")
               => UNCHANGED pageVars
          /\ AnimationStepOf(L)' =>
               \A M \in LessonKey \ {L} :
                 /\ animationFlags'[M] = animationFlags[M]
                 /\ animationAt'[M] = animationAt[M]
                 /\ activeParts'[M] = activeParts[M]]_vars

\* the animate trigger of the for lesson has come while its walk awaited the
\* timer set after the second part, and the forEach lesson is being animated
\* as well
C13_Witness ==
  /\ last = Trigger("animate", "for")
  /\ animationFlags["for"]
  /\ animationAt["for"] = <<2>>
  /\ activeParts["for"] = "condition"
  /\ animationAt["foreach"] = <<3>>

\* C14: no step of a demo animation of lesson L (its start, a timed change
\* of the highlight, its completion) changes the trace, console or counter
\* text of any lesson, nor the step cursor (owner, events, index,
\* accumulated trace and console), nor any span text or Next button; it
\* changes at most the highlighted part and the animation flag of L, and
\* the walk itself.
C14_AnimationFrame ==
  [][\A L \in LessonKey :
       AnimationStepOf(L)' =>
         /\ UNCHANGED <<traces, consoles, counters>>
         /\ UNCHANGED <<stepLesson, stepEvents, stepIndex, stepTrace, stepConsole>>
         /\ UNCHANGED <<text, nextDisabled>>
         /\ \A M \in LessonKey \ {L} :
              /\ activeParts'[M] = activeParts[M]
              /\ animationFlags'[M] = animationFlags[M]]_vars

\* the walk of the for lesson has moved the highlight to the step part while
\* a step sequence of the for lesson is in progress with two events consumed
C14_Witness ==
  /\ last = Trigger("timer", "for")
  /\ activeParts["for"] = "step"
  /\ animationFlags["for"]
  /\ stepLesson = "for"
  /\ stepIndex = 2
  /\ Len(stepTrace) = 2
  /\ ~nextDisabled["for"]

ArgsAre(kinds) ==
  /\ call.name = "formatConsoleStatement"
  /\ Len(call.args) > 0
  /\ \A n \in DOMAIN call.args : call.args[n].kind \in kinds

\* the value bound to the name i in the call
Bound == call.replacements[1].replacement

\* what the arguments stand for, in order: the inner text of a literal, the
\* bound value of the name, the decimal text of the bound value plus delta
Meant ==
  [n \in DOMAIN call.args |->
     CASE call.args[n].kind = "literal" -> call.args[n].inner
       [] call.args[n].kind = "name" -> Bound
       [] call.args[n].kind = "sum" ->
            NumberToString(SignedToNumber(Bound) + call.args[n].delta)
       [] OTHER -> ""]

C17_Sums ==
  (ArgsAre({"sum"}) /\ Returned) =>
    /\ result[1] = join(Meant, " ")
    /\ (call.template = "console.log(i + 1);" /\ Bound = "4") => result[1] = "5"
    /\ (call.template = "console.log(i - 2);" /\ Bound = "-1") => result[1] = "-3"

\* the call console.log(i - 2) with i bound to "4" has returned
C17_Witness ==
  /\ call.name = "formatConsoleStatement"
  /\ call.template = "console.log(i - 2);"
  /\ Bound = "4"
  /\ Returned
  /\ result[1] = "2"

(***************************************************************************)
(* Properties of the executors.                                            *)
(***************************************************************************)
\* the step the user means, with its sign
StepOf(given) == IF given.sign = "+" THEN given.magnitude ELSE 0 - given.magnitude

\* the number of values the loop the user means visits
VisitsOf(given) ==
  Visits([start |-> given.start, end |-> given.end,
          comparator |-> given.comparator, step |-> StepOf(given)])

\* the text ends with the given ending
EndsWith(s, ending) ==
  Len(s) >= Len(ending) /\ SubSeq(s, Len(s) - Len(ending) + 1, Len(s)) = ending

\* C18: for a counter lesson that parses, with n values visited, the
\* lesson data holds exactly 3n+3 events: a start event with the counter of
\* the start value; for each visited value in order a condition event
\* ("-> yes"), a body event with the console line, and a step event whose
\* counter is the value plus the step; a last condition event ("-> no") on
\* nextValue; and a terminal event with highlight null.  finalCounter is
\* "<variable> = <nextValue>", it is the counter of the terminal event and,
\* when n > 0, of the last step event.
C18_EventOrder ==
  (call.name = "collectLessonData" /\ call.lesson \in CounterLessons /\ Returned
     /\ result[1].ok) =>
    LET data == result[1].value
        events == data.events
        given == call.given
        n == VisitsOf(given)
        valueAt(k) == given.start + (k - 1) * StepOf(given)
        nextValue == valueAt(n + 1)
        counterOf(value) == given.variable \o " = " \o NumberToString(value)
    IN  /\ Len(events) = 3 * n + 3
        /\ Len(data.consoleLines) = n
        /\ events[1].highlight = "start"
        /\ events[1].counter = counterOf(given.start)
        /\ \A k \in 1..n :
             /\ events[3 * k - 1].highlight = "condition"
             /\ EndsWith(events[3 * k - 1].trace,
                         "with " \o counterOf(valueAt(k)) \o " -> yes")
             /\ events[3 * k - 1].counter = counterOf(valueAt(k))
             /\ events[3 * k].highlight = "body"
             /\ events[3 * k].console = "Looping is learning " \o NumberToString(valueAt(k))
             /\ events[3 * k].console = data.consoleLines[k]
             /\ events[3 * k + 1].highlight = "step"
             /\ events[3 * k + 1].counter = counterOf(valueAt(k) + StepOf(given))
        /\ events[3 * n + 2].highlight = "condition"
        /\ EndsWith(events[3 * n + 2].trace, "with " \o counterOf(nextValue) \o " -> no")
        /\ events[3 * n + 3].highlight = Null
        /\ DOMAIN events[3 * n + 3] = {"highlight", "counter"}
        /\ events[3 * n + 3].counter = data.finalCounter
        /\ data.finalCounter = counterOf(nextValue)
        /\ n > 0 => events[3 * n + 1].counter = data.finalCounter

\* the lesson data of a while loop counting down from 2 to -2 by 2, three
\* values, has been collected
C18_Witness ==
  /\ call.name = "collectLessonData"
  /\ call.lesson = "while"
  /\ call.given.start = 2
  /\ call.given.end = -2
  /\ StepOf(call.given) = -2
  /\ Returned
  /\ result[1].ok
  /\ Len(result[1].value.events) = 12
  /\ result[1].value.finalCounter = "i = -4"

\* C19: in the lesson data of the forEach lesson, the step event of the
\* item at index i carries the counter "index = i+1 (value <values[i+1]>)"
\* when a next value exists, and "index = i+1 (waiting)" when none exists
\* (i is the last index).
C19_StepPreview ==
  (call.name = "collectLessonData" /\ call.lesson = "foreach" /\ Returned
     /\ result[1].ok) =>
    LET values == parseForEachConfig(call.spans).value.config.values
        events == result[1].value.events
    IN  \A i \in 0..(Len(values) - 1) :
          /\ events[3 * i + 4].highlight = "step"
          /\ events[3 * i + 4].counter =
               IF i + 1 < Len(values)
               THEN "index = " \o NumberToString(i + 1) \o " (value "
                      \o NumberToString(values[i + 2]) \o ")"
               ELSE "index = " \o NumberToString(i + 1) \o " (waiting)"

(***************************************************************************)
(* The order of the checks of parseCounterConfig.                          *)
(***************************************************************************)
\* the message of the first check that the defects of the call fail, in the
\* order start, condition, step, zero, sign, runaway; "" when there is none
FirstFailure ==
  IF "start" \in call.defects
  THEN "Could not read the starting value. Keep it like let i = 1."
  ELSE IF "condition" \in call.defects
  THEN "Could not read the condition. Keep it like i <= 5."
  ELSE IF "step" \in call.defects
  THEN "Could not read the step. Keep it like i = i + 1."
  ELSE IF "zero" \in call.defects
  THEN "The step must change the counter."
  ELSE IF "sign" \in call.defects
  THEN (IF call.comparator = "<=" THEN "A <= comparison needs a positive step."
        ELSE "A >= comparison needs a negative step.")
  ELSE IF "runaway" \in call.defects
  THEN "This loop would run too many times. Adjust the numbers."
  ELSE ""

\* C20: parseCounterConfig applies its checks in the order start pattern,
\* condition pattern, step pattern, zero magnitude of the step, sign of the
\* step against the comparator, runaway derivation, and returns the error
\* of the first check that fails: spans with several defects fail with the
\* message of the first of them in that order.  A step of magnitude zero
\* that can be read fails with "The step must change the counter.", never
\* with a sign or a runaway message; a step against the comparator fails
\* with the sign message also when the loop would exceed the cap.
C20_CheckOrder ==
  (call.name = "parseCounterConfig" /\ "defects" \in DOMAIN call /\ Returned) =>
    /\ result[1].ok = (call.defects = {})
    /\ ~result[1].ok => result[1] = [ok |-> FALSE, error |-> FirstFailure]
    /\ ("zero" \in call.defects /\ call.defects \cap {"start", "condition", "step"} = {})
         => result[1].error = "The step must change the counter."
    /\ ({"sign", "runaway"} \subseteq call.defects
          /\ call.defects \cap {"start", "condition", "step", "zero"} = {})
         => result[1].error \in {"A <= comparison needs a positive step.",
                                 "A >= comparison needs a negative step."}

\* a loop counting down under <= towards an end it would never reach has
\* been refused for the sign of its step
C20_Witness ==
  /\ call.name = "parseCounterConfig"
  /\ "defects" \in DOMAIN call
  /\ call.defects = {"sign", "runaway"}
  /\ call.comparator = "<="
  /\ call.spans.condition = "i <= 1000"
  /\ call.spans.step = "i = i - 1"
  /\ Returned
  /\ result[1] = [ok |-> FALSE, error |-> "A <= comparison needs a positive step."]

\* the evaluated arguments of the call that are not empty, in order
Evaluated ==
  SelectSeq([n \in DOMAIN call.args |->
               evaluateToken(call.args[n].text, call.replacements)],
            NotEmpty)

\* C21 as stated: for every template of the shape of a logging call that is
\* not blank and every argument list, an empty one included,
\* formatConsoleStatement returns the evaluated arguments that are not
\* empty joined by single spaces, and whenever that joined text is empty,
\* the trimmed template with the bound names replaced; a blank template
\* returns "(no console output)".
C21_Original ==
  (call.name = "formatConsoleStatement" /\ Returned) =>
    result[1] =
      IF Trim(call.template) = "" THEN "(no console output)"
      ELSE IF join(Evaluated, " ") = ""
      THEN replaceIdentifiers(Trim(call.template), call.replacements)
      ELSE join(Evaluated, " ")

\* C21: a blank template returns "(no console output)"; a logging call
\* with no argument returns the empty text; a logging call with arguments
\* returns the evaluated arguments that are not empty joined by single
\* spaces, with the blanks at both ends of the joined text removed, and
\* whenever that text is empty, the trimmed template with the bound names
\* replaced.
C21_JoinOrFallBack ==
  (call.name = "formatConsoleStatement" /\ Returned) =>
    result[1] =
      IF Trim(call.template) = "" THEN "(no console output)"
      ELSE IF Len(call.args) = 0 THEN ""
      ELSE IF Trim(join(Evaluated, " ")) = ""
      THEN replaceIdentifiers(Trim(call.template), call.replacements)
      ELSE Trim(join(Evaluated, " "))

\* a logging call written with blanks about it, whose two arguments are an
\* empty literal and a blank one, has returned the call itself
C21_Witness ==
  /\ call.name = "formatConsoleStatement"
  /\ call.template = "  console.log (\"\", \" \") "
  /\ Returned
  /\ result[1] = "console.log (\"\", \" \")"

\* the items of the array of the call that are not empty, in order
Kept == SelectSeq(call.items, NotEmpty)

\* the number an item is the text of
Numeral(item) ==
  CASE item = "2" -> 2 [] item = "4" -> 4 [] item = "6" -> 6 [] item = "-6" -> -6

\* C22: every successful result of parseForEachConfig holds at least one
\* value, and its values are the numbers of the items that are not empty,
\* in the order written; an array whose items are all empty fails with
\* "Add at least one number to the array."; an array with an item that is
\* no number or no finite number fails with "Only numbers are supported in
\* this playground array.", and the failure holds no list of values.
C22_ForEachValues ==
  (call.name = "parseForEachConfig" /\ Returned) =>
    /\ result[1].ok =>
         /\ Len(result[1].value.config.values) >= 1
         /\ \A n \in DOMAIN Kept : Kept[n] \in {"2", "4", "6", "-6"}
         /\ result[1].value.config.values = [n \in DOMAIN Kept |-> Numeral(Kept[n])]
    /\ Kept = <<>> =>
         result[1] = [ok |-> FALSE, error |-> "Add at least one number to the array."]
    /\ (\E n \in DOMAIN Kept : Kept[n] \in {"x", "Infinity"}) =>
         result[1] =
           [ok |-> FALSE, error |-> "Only numbers are supported in this playground array."]

\* an array of two numbers about an item that is no number has been refused
C22_Witness ==
  /\ call.name = "parseForEachConfig"
  /\ call.spans.start = "const values = [2, x, -6];"
  /\ Returned
  /\ result[1] =
       [ok |-> FALSE, error |-> "Only numbers are supported in this playground array."]

\* C23: a demo animation that has started ends: whenever the animation
\* flag of a lesson is set, it is reset later and no walk of the lesson is
\* left, whatever clicks and edits come in between, given that the timers
\* fire; an Animate click on the lesson is then accepted again.
C23_AnimationEnds ==
  \A L \in {"for", "foreach"} :
    animationFlags[L] ~> (~animationFlags[L] /\ animationAt[L] = <<>>)

\* the animation of the for lesson has ended on a timer while the lesson
\* was being stepped through
C23_Witness ==
  /\ last = Trigger("timer", "for")
  /\ ~animationFlags["for"]
  /\ animationAt["for"] = <<>>
  /\ stepLesson = "for"
  /\ stepIndex > 1

\* C24: between triggers, if a lesson owns a step sequence then the event
\* list is not empty, 0 <= stepIndex < Len(stepEvents), and the accumulated
\* trace and the accumulated console hold at most stepIndex lines each; if
\* no lesson owns one, then the event list, the accumulated trace and the
\* accumulated console are empty and stepIndex = 0.
C24_CursorBounds ==
  IF stepLesson # Null
  THEN /\ stepLesson \in LessonKey
       /\ stepEvents # <<>>
       /\ 0 <= stepIndex /\ stepIndex < Len(stepEvents)
       /\ Len(stepTrace) <= stepIndex
       /\ Len(stepConsole) <= stepIndex
  ELSE /\ stepEvents = <<>>
       /\ stepTrace = <<>>
       /\ stepConsole = <<>>
       /\ stepIndex = 0

\* an advance has left the for lesson one event before the end of its
\* sequence, with lines accumulated
C24_Witness ==
  /\ last = Trigger("advance", "for")
  /\ stepLesson = "for"
  /\ stepIndex = Len(stepEvents) - 1
  /\ stepTrace # <<>>
  /\ stepConsole # <<>>

\* C25: whenever lesson L owns a step sequence, the text of L parses and
\* the event list of the sequence is the one the build function produces
\* from the text L holds now: no trigger leaves a sequence going over events
\* of a text that has changed since.
C25_EventsOfCurrentText ==
  \A L \in LessonKey :
    stepLesson = L =>
      /\ collectLessonData(L, text).ok
      /\ stepEvents = BuiltEvents(L)

\* the for lesson is stepped through after its start was typed anew
C25_Witness ==
  /\ text["for"].start = "let i = 9"
  /\ stepLesson = "for"
  /\ stepIndex > 0
  /\ last = Trigger("advance", "for")

\* C27: between triggers, the Next button of a lesson is enabled exactly
\* when the lesson owns the step sequence in progress, so at most one Next
\* button is enabled; none is enabled after a run, a reset, an edit, a click on a
\* part, a step request that failed, or the advance that consumed the last
\* event.
C27_NextButton ==
  /\ \A L \in LessonKey : ~nextDisabled[L] <=> stepLesson = L
  /\ \A L, M \in LessonKey : ~nextDisabled[L] /\ ~nextDisabled[M] => L = M
  /\ \/ last.trigger \in {"run", "reset", "edit", "select"}
     \/ last.trigger = "step" /\ ~collectLessonData(last.lesson, text).ok
     \/ last.trigger = "advance" /\ last.exhausted
     => \A L \in LessonKey : nextDisabled[L]

\* the Next button of the for lesson is enabled while it is stepped
\* through, after the forEach lesson had been
C27_Witness ==
  /\ ~nextDisabled["for"]
  /\ nextDisabled["foreach"]
  /\ stepLesson = "for"
  /\ stepIndex > 0
  /\ traces["foreach"] = "Click Next step to begin."

\* the trace, console and counter boxes of a lesson on a page
Shown(page, L) ==
  [trace |-> page.traces[L], console |-> page.consoles[L],
   counter |-> page.counters[L]]

\* C26: when a step sequence of a lesson has been advanced until it is
\* exhausted, the trace, console and counter boxes of the lesson show what
\* a run request shows for the same text.
C26_StepsShowTheRun ==
  \A L \in LessonKey :
    (last.trigger = "advance" /\ last.lesson = L /\ last.exhausted) =>
      Shown(Page, L) = Shown(runLesson(Page, L), L)

\* the part that is highlighted once an event has been processed
HighlightOf(event) ==
  IF event.highlight \in {Null, Undefined} THEN Undefined ELSE event.highlight

\* C28: while a lesson owns a step sequence of which an event has been
\* consumed, the highlighted part of the lesson is the highlight of the
\* event consumed last, also while a demo animation of the lesson runs.
C28_HighlightOfLastEvent ==
  \A L \in LessonKey :
    (stepLesson = L /\ stepIndex > 0) =>
      activeParts[L] = HighlightOf(stepEvents[stepIndex])

====
